---- MODULE Spec2Model ----
(***************************************************************************)
(* SupaPanel: the project-domain API (GET/PUT/DELETE                       *)
(* /api/projects/[id]/domain), the project status and logs API            *)
(* (/api/projects/[id]/status), the panel-domain API                       *)
(* (/api/settings/panel-domain), registration (/api/auth/register), the    *)
(* dashboard's status badge, the project lifecycle's deploy operation and  *)
(* the Traefik dynamic-configuration generator (lib/traefik.ts).           *)
(*                                                                         *)
(* A request handler is an async function: between two awaits it runs      *)
(* without interruption, and at every await another request may run.  Each *)
(* handler is therefore cut into one action per await that touches shared  *)
(* state (the database, the routing directory); code between two such      *)
(* awaits belongs to the action that follows it.                           *)
(***************************************************************************)
EXTENDS Integers, Sequences, FiniteSets, TLC

VARIABLES
    db,      \* prisma.project: id -> row (existing projects only)
    files,   \* the Traefik dynamic directory: file name (without .yml) -> file
    req,     \* worker -> the request it is serving (handler locals, position)
    served,  \* the number of requests received so far
    settings,  \* prisma.panelSettings: the set of rows [key, value]
    users,   \* prisma.user: the set of rows
    dash,    \* the dashboard page: its React state and the fetch in progress
    lib,     \* the latest direct call of a lib/traefik.ts function
    now,     \* the clock new Date() reads
    server,  \* the host: the projects' containers and on-disk directories
    resolved \* history: whether the lookup behind each stored domain found an address

vars == <<db, files, req, served, settings, users, dash, lib, now, server, resolved>>

\* The state outside the project-domain and status handlers.
others == <<settings, users, dash, lib, now, server>>

-----------------------------------------------------------------------------
(* Values.  A JavaScript string is a tuple of one-character strings; null   *)
(* and undefined are tagged tuples that no string equals.                   *)

Null == <<"null">>
Undefined == <<"undefined">>
EmptyStr == <<>>

\* JavaScript truthiness of a string | null | undefined value.
Truthy(v) == v /= Null /\ v /= Undefined /\ v /= EmptyStr

\* a || b
OrElse(a, b) == IF Truthy(a) THEN a ELSE b

\* A lookup finds up to MaxAddresses address records.
MaxAddresses == 2

Letters == {"a", "b", "c", "i", "o"}
Digits == {"0", "1", "2", "3", "4", "5", "6", "7", "8", "9"}

IsAlnum(c) == c \in Letters \cup Digits
IsInner(c) == IsAlnum(c) \/ c \in {"-", "_", "."}

\* The pattern without its leading [a-zA-Z0-9]: any inner character may
\* start the name.
DomainRegexTestNoLead(s) ==
    /\ Len(s) >= 3
    /\ \E k \in 1..(Len(s) - 2) :
          /\ s[k] = "."
          /\ \A j \in 1..(k - 1) : IsInner(s[j])
          /\ \A j \in (k + 1)..Len(s) : s[j] \in Letters

\* /^[a-zA-Z0-9][a-zA-Z0-9-_.]*\.[a-zA-Z]{2,}$/ .test(s)
DomainRegexTest(s) ==
    /\ Len(s) >= 4
    /\ IsAlnum(s[1])
    /\ \E k \in 2..(Len(s) - 2) :
          /\ s[k] = "."
          /\ \A j \in 2..(k - 1) : IsInner(s[j])
          /\ \A j \in (k + 1)..Len(s) : s[j] \in Letters

\* The domain strings requests carry.
D1 == <<"a", ".", "i", "o">>
D2 == <<"b", ".", "i", "o">>
BadLeadingHyphen == <<"-", "a", ".", "i", "o">>
BadSpace == <<"a", " ", "i", "o">>
BadShortTld == <<"a", ".", "i">>

GoodDomains == {D1, D2}
BadDomains == {BadLeadingHyphen, BadSpace, BadShortTld}

-----------------------------------------------------------------------------
(* Projects.                                                                *)

ExistingIds == {"p1", "p2"}
MissingId == "p9"
Ids == ExistingIds \cup {MissingId}

Slug(id) == IF id = "p1" THEN "demo" ELSE "shop"
Slugs == {Slug(id) : id \in ExistingIds}

\* The files of the dynamic directory: <slug>.yml of each project, panel.yml.
FileNames == Slugs \cup {"panel"}

\* EnvVar rows of a project: key -> value (a string of digits).
EnvVarsOf(id) ==
    IF id = "p1" THEN [k \in {"KONG_HTTP_PORT"} |-> <<"8", "0", "8", "0">>]
    ELSE [k \in {} |-> <<>>]

ProjectStatuses == {"draft", "deploying", "running", "stopped", "failed"}
DockerStatuses == {"running", "stopped", "partial", "not_deployed", "error"}

NewProject(id, status) ==
    [slug |-> Slug(id),
     status |-> status,
     deployStatus |-> Null,
     lastDeployAt |-> Null,
     lastDeployError |-> Null,
     domain |-> Null,
     domainVerified |-> FALSE,
     studioDomain |-> Null,
     studioDomainVerified |-> FALSE,
     envVars |-> EnvVarsOf(id)]

-----------------------------------------------------------------------------
(* lib/traefik.ts                                                           *)

DigitValue(c) ==
    CASE c = "0" -> 0 [] c = "1" -> 1 [] c = "2" -> 2 [] c = "3" -> 3 [] c = "4" -> 4
      [] c = "5" -> 5 [] c = "6" -> 6 [] c = "7" -> 7 [] c = "8" -> 8 [] c = "9" -> 9

RECURSIVE ParseDigits(_, _)
ParseDigits(s, acc) ==
    IF s = <<>> \/ Head(s) \notin Digits THEN acc
    ELSE ParseDigits(Tail(s), acc * 10 + DigitValue(Head(s)))

\* NaN, written as an integer that no string of digits parses to.
NaN == 0 - 1

\* parseInt(s): the leading digits of s, NaN when s does not start with one.
ParseInt(s) == IF s = <<>> \/ Head(s) \notin Digits THEN NaN ELSE ParseDigits(s, 0)

\* The allocator with one default for both ports.
getProjectPortsOneDefault(envVars) ==
    [kongPort |-> IF "KONG_HTTP_PORT" \in DOMAIN envVars /\ envVars["KONG_HTTP_PORT"] /= <<>>
                    THEN ParseDigits(envVars["KONG_HTTP_PORT"], 0) ELSE 8000,
     studioPort |-> IF "STUDIO_PORT" \in DOMAIN envVars /\ envVars["STUDIO_PORT"] /= <<>>
                      THEN ParseDigits(envVars["STUDIO_PORT"], 0) ELSE 8000]

EnvGet(envVars, key) == IF key \in DOMAIN envVars THEN envVars[key] ELSE Undefined

getProjectPorts(envVars) ==
    [kongPort |-> ParseInt(OrElse(EnvGet(envVars, "KONG_HTTP_PORT"), <<"8", "0", "0", "0">>)),
     studioPort |-> ParseInt(OrElse(EnvGet(envVars, "STUDIO_PORT"), <<"3", "0", "0", "0">>))]

\* One router of the rendered document.
Router(name, host, entryPoint, service, certResolver, middleware, priority) ==
    [name |-> name, rule |-> host, entryPoint |-> entryPoint, service |-> service,
     certResolver |-> certResolver, middleware |-> middleware, priority |-> priority]

ApiRouters(projectSlug, domain) ==
    {Router(<<projectSlug, "api">>, domain, "websecure", <<projectSlug, "api">>,
            "letsencrypt", "none", 10),
     Router(<<projectSlug, "api-http">>, domain, "web", <<projectSlug, "api">>,
            "none", "https-redirect", 5)}

\* The Studio routers without the plaintext-entry one.
StudioRoutersSecureOnly(projectSlug, studioDomain) ==
    {[name |-> <<projectSlug, "studio">>, rule |-> studioDomain, entryPoint |-> "websecure",
      service |-> <<projectSlug, "studio">>, certResolver |-> "letsencrypt",
      middleware |-> "none", priority |-> 10]}

StudioRouters(projectSlug, studioDomain) ==
    {Router(<<projectSlug, "studio">>, studioDomain, "websecure", <<projectSlug, "studio">>,
            "letsencrypt", "none", 10),
     Router(<<projectSlug, "studio-http">>, studioDomain, "web", <<projectSlug, "studio">>,
            "none", "https-redirect", 5)}

ApiService(projectSlug, kongPort) ==
    [name |-> <<projectSlug, "api">>, host |-> <<projectSlug, "kong">>,
     port |-> kongPort, healthCheck |-> TRUE]

StudioService(projectSlug, studioPort) ==
    [name |-> <<projectSlug, "studio">>, host |-> <<projectSlug, "studio">>,
     port |-> studioPort, healthCheck |-> FALSE]

\* The document generateProjectTraefikConfig builds (the comment header and
\* its timestamp carry no routing and are left out).
ProjectDocument(config) ==
    [exists |-> TRUE,
     routers |->
        (IF Truthy(config.domain)
            THEN ApiRouters(config.projectSlug, config.domain) ELSE {})
        \cup
        (IF Truthy(config.studioDomain)
            THEN StudioRouters(config.projectSlug, config.studioDomain) ELSE {}),
     middlewares |-> {"https-redirect"},
     services |->
        (IF Truthy(config.domain)
            THEN {ApiService(config.projectSlug, config.kongPort)} ELSE {})
        \cup
        (IF Truthy(config.studioDomain)
            THEN {StudioService(config.projectSlug, config.studioPort)} ELSE {})]

\* No file at the path.
NoFile == [exists |-> FALSE, routers |-> {}, middlewares |-> {}, services |-> {}]

\* A generator that patches the file: the new routers and services are added
\* to those the file holds.
generateProjectTraefikConfigPatching(fs, config) ==
    [fs EXCEPT ![config.projectSlug] =
        [exists |-> TRUE,
         routers |-> @.routers \cup
            (IF config.domain \notin {<<>>, <<"null">>, <<"undefined">>}
                THEN {[name |-> <<config.projectSlug, "api">>, rule |-> config.domain,
                       entryPoint |-> "websecure", service |-> <<config.projectSlug, "api">>,
                       certResolver |-> "letsencrypt", middleware |-> "none",
                       priority |-> 10]}
                ELSE {}),
         middlewares |-> {"https-redirect"},
         services |-> @.services]]

\* fs.writeFile(configPath, traefikConfig) of generateProjectTraefikConfig:
\* the file <projectSlug>.yml is replaced by the document.
generateProjectTraefikConfig(fs, config) ==
    [fs EXCEPT ![config.projectSlug] = ProjectDocument(config)]

\* fs.unlink(configPath) of removeProjectTraefikConfig.
removeProjectTraefikConfig(fs, projectSlug) ==
    [fs EXCEPT ![projectSlug] = NoFile]

\* dns.resolve4(domain): the number of address records found, or the error
\* thrown (no such domain, timeout, malformed name).
DnsErrors == {"ENOTFOUND", "ETIMEOUT", "EBADNAME"}

DnsOutcomes ==
    {[error |-> FALSE, code |-> "", addresses |-> n] : n \in 0..MaxAddresses}
    \cup {[error |-> TRUE, code |-> c, addresses |-> 0] : c \in DnsErrors}

\* The verifier that takes an answered lookup for a reachable domain, even
\* one without address records.
verifyDomainDNSAnyAnswer(outcome) == ~outcome.error

verifyDomainDNS(outcome) == IF outcome.error THEN FALSE ELSE outcome.addresses > 0

-----------------------------------------------------------------------------
(* Requests.                                                                *)

Workers == {1, 2}

\* The requests received are counted up to MaxRequests.
MaxRequests == 2

\* The dashboard loads its project list up to MaxLoads times.
MaxLoads == 2

Receive == served < MaxRequests /\ served' = served + 1

Auths == {"none", "invalid", "valid"}

\* The values a request body gives a domain key (Undefined: key omitted).
DomainInputs == {Undefined, EmptyStr} \cup BadDomains \cup GoodDomains

Idle == [pc |-> "idle"]

NoResp == [status |-> 0]

NewRequest(kind, id, auth, domain, studioDomain) ==
    [pc |-> "begin", kind |-> kind, id |-> id, auth |-> auth,
     domain |-> domain, studioDomain |-> studioDomain,
     project |-> [slug |-> "", envVars |-> <<>>],
     apiDnsValid |-> FALSE, studioDnsValid |-> FALSE,
     \* history: whether each lookup found at least one address
     apiResolved |-> FALSE, studioResolved |-> FALSE,
     updatedProject |-> NewProject(id, "draft"),
     \* history: the row the request's update replaced
     replaced |-> NewProject(id, "draft"),
     docker |-> "",
     resp |-> NoResp,
     \* history: the database, the routing directory and the settings when the
     \* request began
     pre |-> [db |-> db, files |-> files, settings |-> settings],
     \* history: what the request has done so far
     dnsLookups |-> 0, dbWrites |-> 0, fileOps |-> 0, orchCalls |-> 0,
     ioFault |-> FALSE]

Respond(r, status, body) == [r EXCEPT !.pc = "done", !.resp = [status |-> status, body |-> body]]

Error(r, status, message) == Respond(r, status, [error |-> message])

\* The check that looks for the cookie without validating the session.
SessionCheckCookieOnly(auth) ==
    IF auth = "none" THEN "Unauthorized" ELSE "ok"

\* cookies().get('session') and validateSession: the 401 answer, or "ok".
SessionCheck(auth) ==
    IF auth = "none" THEN "Unauthorized"
    ELSE IF auth = "invalid" THEN "Invalid session"
    ELSE "ok"

Set(w, r) == req' = [req EXCEPT ![w] = r]

At(w, kind, pc) == req[w].pc = pc /\ req[w].kind = kind

-----------------------------------------------------------------------------
(* PUT /api/projects/[id]/domain                                            *)

\* The format checks of the request body: the 400 answer, or "ok".
PutValidate(domain, studioDomain) ==
    IF Truthy(domain) /\ ~DomainRegexTest(domain) THEN "Invalid API domain format"
    ELSE IF Truthy(studioDomain) /\ ~DomainRegexTest(studioDomain)
        THEN "Invalid Studio domain format"
    ELSE IF ~Truthy(domain) /\ ~Truthy(studioDomain) THEN "At least one domain is required"
    ELSE "ok"

\* findFirst({ where: { domain, id } }): the query without the "not".
ApiDomainInUseSameProject(rows, id, domain) ==
    \E other \in DOMAIN rows : other = id /\ rows[other].domain = domain

\* prisma.project.findFirst({ where: { domain, id: { not: id } } }) finds a row.
ApiDomainInUse(rows, id, domain) ==
    \E other \in DOMAIN rows : other /= id /\ rows[other].domain = domain

\* prisma.project.findFirst({ where: { studioDomain, id: { not: id } } }) finds a row.
StudioDomainInUse(rows, id, studioDomain) ==
    \E other \in DOMAIN rows : other /= id /\ rows[other].studioDomain = studioDomain

\* updateData that saves a domain only when its DNS lookup succeeded.
UpdateDataVerifiedOnly(domain, studioDomain, apiDnsValid, studioDnsValid) ==
    (IF domain /= Undefined
        THEN [domain |-> IF apiDnsValid THEN domain ELSE Null,
              domainVerified |-> apiDnsValid]
        ELSE <<>>)
    @@
    (IF studioDomain /= Undefined
        THEN [studioDomain |-> IF studioDnsValid THEN studioDomain ELSE Null,
              studioDomainVerified |-> studioDnsValid]
        ELSE <<>>)

\* updateData that marks every domain it saves as verified, whatever the
\* lookup answered.
UpdateDataAlwaysVerified(domain, studioDomain, apiDnsValid, studioDnsValid) ==
    (IF domain /= Undefined
        THEN [domain |-> OrElse(domain, Null), domainVerified |-> Truthy(domain)]
        ELSE <<>>)
    @@
    (IF studioDomain /= Undefined
        THEN [studioDomain |-> OrElse(studioDomain, Null),
              studioDomainVerified |-> Truthy(studioDomain)]
        ELSE <<>>)

\* updateData that treats an empty value like an omitted key.
UpdateDataIgnoringEmpty(domain, studioDomain, apiDnsValid, studioDnsValid) ==
    (IF Truthy(domain)
        THEN [domain |-> domain, domainVerified |-> apiDnsValid]
        ELSE <<>>)
    @@
    (IF Truthy(studioDomain)
        THEN [studioDomain |-> studioDomain, studioDomainVerified |-> studioDnsValid]
        ELSE <<>>)

\* updateData: the columns the update sets.
UpdateData(domain, studioDomain, apiDnsValid, studioDnsValid) ==
    (IF domain /= Undefined
        THEN [domain |-> OrElse(domain, Null),
              domainVerified |-> IF Truthy(domain) THEN apiDnsValid ELSE FALSE]
        ELSE <<>>)
    @@
    (IF studioDomain /= Undefined
        THEN [studioDomain |-> OrElse(studioDomain, Null),
              studioDomainVerified |-> IF Truthy(studioDomain) THEN studioDnsValid ELSE FALSE]
        ELSE <<>>)

\* An update that writes the columns of data and resets every other domain
\* column.
UpdateRowResettingOthers(row, data) ==
    [f \in DOMAIN row |->
        IF f \in DOMAIN data THEN data[f]
        ELSE IF f \in {"domain", "studioDomain"} THEN Null
        ELSE IF f \in {"domainVerified", "studioDomainVerified"} THEN FALSE
        ELSE row[f]]

\* prisma.project.update({ where: { id }, data }): the row afterwards.
UpdateRow(row, data) ==
    [f \in DOMAIN row |-> IF f \in DOMAIN data THEN data[f] ELSE row[f]]

\* The argument built from the request's domains alone, without the merge
\* with the updated row.
TraefikConfigOfRequestOnly(project, domain, studioDomain, updatedProject) ==
    LET ports == getProjectPorts(project.envVars)
    IN  [projectSlug |-> project.slug,
         domain |-> OrElse(domain, EmptyStr),
         studioDomain |-> OrElse(studioDomain, EmptyStr),
         kongPort |-> ports.kongPort,
         studioPort |-> ports.studioPort]

\* The argument of generateProjectTraefikConfig: the request's domains merged
\* with the updated row's.
TraefikConfigOf(project, domain, studioDomain, updatedProject) ==
    LET ports == getProjectPorts(project.envVars)
        finalDomain == OrElse(domain, updatedProject.domain)
        finalStudioDomain == OrElse(studioDomain, updatedProject.studioDomain)
    IN  [projectSlug |-> project.slug,
         domain |-> OrElse(finalDomain, EmptyStr),
         studioDomain |-> OrElse(finalStudioDomain, EmptyStr),
         kongPort |-> ports.kongPort,
         studioPort |-> ports.studioPort]

\* messages.join('. ') || 'Domains updated successfully'
PutMessages(domain, studioDomain, apiDnsValid, studioDnsValid) ==
    (IF Truthy(domain)
        THEN <<IF apiDnsValid THEN "API domain verified"
               ELSE "API domain configured (DNS pending)">>
        ELSE <<>>)
    \o
    (IF Truthy(studioDomain)
        THEN <<IF studioDnsValid THEN "Studio domain verified"
               ELSE "Studio domain configured (DNS pending)">>
        ELSE <<>>)

PutSuccessBody(r) ==
    [success |-> TRUE,
     domain |-> r.updatedProject.domain,
     verified |-> r.updatedProject.domainVerified,
     studioDomain |-> r.updatedProject.studioDomain,
     studioVerified |-> r.updatedProject.studioDomainVerified,
     message |-> PutMessages(r.domain, r.studioDomain, r.apiDnsValid, r.studioDnsValid)]

\* Lines 65-92: session, body, format validation.
PutBegin(w, id, auth, domain, studioDomain) ==
    /\ req[w].pc = "idle"
    /\ LET r == NewRequest("PUT", id, auth, domain, studioDomain)
       IN  IF SessionCheck(auth) /= "ok" THEN Set(w, Error(r, 401, SessionCheck(auth)))
           ELSE IF PutValidate(domain, studioDomain) /= "ok"
               THEN Set(w, Error(r, 400, PutValidate(domain, studioDomain)))
           ELSE Set(w, [r EXCEPT !.pc = "findProject"])
    /\ Receive
    /\ UNCHANGED <<db, files, others, resolved>>

\* Lines 94-104: findUnique({ where: { id }, include: { envVars } }).
PutFindProject(w) ==
    /\ At(w, "PUT", "findProject")
    /\ LET r == req[w]
       IN  IF r.id \notin DOMAIN db THEN Set(w, Error(r, 404, "Project not found"))
           ELSE Set(w, [r EXCEPT !.project = [slug |-> db[r.id].slug,
                                              envVars |-> db[r.id].envVars],
                                 !.pc = IF Truthy(r.domain) THEN "checkApi"
                                        ELSE IF Truthy(r.studioDomain) THEN "checkStudio"
                                        ELSE "verifyDns"])
    /\ UNCHANGED <<db, files, served, others, resolved>>

\* Lines 106-117.
PutCheckApi(w) ==
    /\ At(w, "PUT", "checkApi")
    /\ LET r == req[w]
       IN  IF ApiDomainInUse(db, r.id, r.domain)
               THEN Set(w, Error(r, 409, "API domain is already in use"))
           ELSE Set(w, [r EXCEPT !.pc = IF Truthy(r.studioDomain) THEN "checkStudio"
                                        ELSE "verifyDns"])
    /\ UNCHANGED <<db, files, served, others, resolved>>

\* Lines 119-130.
PutCheckStudio(w) ==
    /\ At(w, "PUT", "checkStudio")
    /\ LET r == req[w]
       IN  IF StudioDomainInUse(db, r.id, r.studioDomain)
               THEN Set(w, Error(r, 409, "Studio domain is already in use"))
           ELSE Set(w, [r EXCEPT !.pc = "verifyDns"])
    /\ UNCHANGED <<db, files, served, others, resolved>>

\* Lines 132-134: one lookup for each domain given; neither touches shared state.
PutVerifyDns(w) ==
    /\ At(w, "PUT", "verifyDns")
    /\ \E apiOutcome \in DnsOutcomes, studioOutcome \in DnsOutcomes :
          LET r == req[w]
          IN  Set(w, [r EXCEPT
                  !.apiDnsValid = IF Truthy(r.domain) THEN verifyDomainDNS(apiOutcome)
                                  ELSE FALSE,
                  !.studioDnsValid = IF Truthy(r.studioDomain)
                                        THEN verifyDomainDNS(studioOutcome) ELSE FALSE,
                  !.apiResolved = Truthy(r.domain) /\ apiOutcome.addresses >= 1,
                  !.studioResolved = Truthy(r.studioDomain)
                                        /\ studioOutcome.addresses >= 1,
                  !.dnsLookups = (IF Truthy(r.domain) THEN 1 ELSE 0)
                                 + (IF Truthy(r.studioDomain) THEN 1 ELSE 0),
                  !.pc = "update"])
    /\ UNCHANGED <<db, files, served, others, resolved>>

\* Lines 136-151.
PutUpdate(w) ==
    /\ At(w, "PUT", "update")
    /\ LET r == req[w]
           row == UpdateRow(db[r.id],
                            UpdateData(r.domain, r.studioDomain,
                                       r.apiDnsValid, r.studioDnsValid))
       IN  /\ db' = [db EXCEPT ![r.id] = row]
           /\ Set(w, [r EXCEPT !.updatedProject = row, !.replaced = db[r.id],
                               !.dbWrites = @ + 1, !.pc = "render"])
           /\ resolved' = [resolved EXCEPT ![r.id] =
                 [domain |-> IF r.domain /= Undefined THEN r.apiResolved ELSE @.domain,
                  studioDomain |-> IF r.studioDomain /= Undefined THEN r.studioResolved
                                   ELSE @.studioDomain]]
    /\ UNCHANGED <<files, served, others>>

\* Lines 153-194: the routing file is written (mkdir or writeFile may throw:
\* the catch of line 195 answers 500), then the response is built.
PutRender(w) ==
    /\ At(w, "PUT", "render")
    /\ LET r == req[w]
           config == TraefikConfigOf(r.project, r.domain, r.studioDomain, r.updatedProject)
       IN  IF Truthy(config.domain) \/ Truthy(config.studioDomain)
           THEN \/ /\ files' = generateProjectTraefikConfig(files, config)
                   /\ Set(w, Respond([r EXCEPT !.fileOps = @ + 1], 200, PutSuccessBody(r)))
                \/ /\ files' = files
                   /\ Set(w, Error([r EXCEPT !.fileOps = @ + 1, !.ioFault = TRUE],
                                   500, "Internal server error"))
           ELSE /\ files' = files
                /\ Set(w, Respond(r, 200, PutSuccessBody(r)))
    /\ UNCHANGED <<db, served, others, resolved>>

-----------------------------------------------------------------------------
(* DELETE /api/projects/[id]/domain                                         *)

\* The columns the removal clears.
ClearedDomains ==
    [domain |-> Null, domainVerified |-> FALSE,
     studioDomain |-> Null, studioDomainVerified |-> FALSE]

\* Lines 209-221.
DeleteBegin(w, id, auth) ==
    /\ req[w].pc = "idle"
    /\ LET r == NewRequest("DELETE", id, auth, Undefined, Undefined)
       IN  IF SessionCheck(auth) /= "ok" THEN Set(w, Error(r, 401, SessionCheck(auth)))
           ELSE Set(w, [r EXCEPT !.pc = "findProject"])
    /\ Receive
    /\ UNCHANGED <<db, files, others, resolved>>

\* Lines 223-229.
DeleteFindProject(w) ==
    /\ At(w, "DELETE", "findProject")
    /\ LET r == req[w]
       IN  IF r.id \notin DOMAIN db THEN Set(w, Error(r, 404, "Project not found"))
           ELSE Set(w, [r EXCEPT !.project = [slug |-> db[r.id].slug,
                                              envVars |-> db[r.id].envVars],
                                 !.pc = "update"])
    /\ UNCHANGED <<db, files, served, others, resolved>>

\* Lines 231-240.
DeleteUpdate(w) ==
    /\ At(w, "DELETE", "update")
    /\ LET r == req[w]
           row == UpdateRow(db[r.id], ClearedDomains)
       IN  /\ db' = [db EXCEPT ![r.id] = row]
           /\ Set(w, [r EXCEPT !.updatedProject = row, !.replaced = db[r.id],
                               !.dbWrites = @ + 1, !.pc = "remove"])
           /\ resolved' = [resolved EXCEPT ![r.id] =
                 [domain |-> FALSE, studioDomain |-> FALSE]]
    /\ UNCHANGED <<files, served, others>>

\* Lines 242-249 and removeProjectTraefikConfig: unlink removes the file, or
\* throws; the catch of traefik.ts:157 swallows every error (ENOENT silently,
\* any other after logging it), so the handler answers 200 either way.
DeleteRemove(w) ==
    /\ At(w, "DELETE", "remove")
    /\ LET r == req[w]
       IN  \/ /\ files[r.project.slug].exists
               /\ files' = removeProjectTraefikConfig(files, r.project.slug)
               /\ Set(w, Respond([r EXCEPT !.fileOps = @ + 1], 200,
                                 [success |-> TRUE]))
           \/ /\ ~files[r.project.slug].exists        \* ENOENT
               /\ files' = files
               /\ Set(w, Respond([r EXCEPT !.fileOps = @ + 1], 200,
                                 [success |-> TRUE]))
           \/ /\ files[r.project.slug].exists          \* EACCES, EPERM, EBUSY, ...
               /\ files' = files
               /\ Set(w, Respond([r EXCEPT !.fileOps = @ + 1, !.ioFault = TRUE], 200,
                                 [success |-> TRUE]))
    /\ UNCHANGED <<db, served, others, resolved>>

-----------------------------------------------------------------------------
(* GET /api/projects/[id]/domain                                            *)

\* Lines 16-27.
GetBegin(w, id, auth) ==
    /\ req[w].pc = "idle"
    /\ LET r == NewRequest("GET", id, auth, Undefined, Undefined)
       IN  IF SessionCheck(auth) /= "ok" THEN Set(w, Error(r, 401, SessionCheck(auth)))
           ELSE Set(w, [r EXCEPT !.pc = "findProject"])
    /\ Receive
    /\ UNCHANGED <<db, files, others, resolved>>

\* Lines 29-49.
GetFindProject(w) ==
    /\ At(w, "GET", "findProject")
    /\ LET r == req[w]
       IN  IF r.id \notin DOMAIN db THEN Set(w, Error(r, 404, "Project not found"))
           ELSE Set(w, Respond(r, 200,
                       [domain |-> db[r.id].domain,
                        verified |-> db[r.id].domainVerified,
                        studioDomain |-> db[r.id].studioDomain,
                        studioVerified |-> db[r.id].studioDomainVerified]))
    /\ UNCHANGED <<db, files, served, others, resolved>>

-----------------------------------------------------------------------------
(* GET and POST /api/projects/[id]/status                                   *)

\* getProjectDockerStatus(slug) of lib/project: the live container status the
\* orchestration tool reports at this moment.
getProjectDockerStatus(live) == [status |-> live]

\* getProjectStudioUrl(id) of lib/project: a verified custom Studio domain
\* first, else the default address when the Studio container runs, else null.
getProjectStudioUrl(row, studioRunning) ==
    IF Truthy(row.studioDomain) /\ row.studioDomainVerified
        THEN <<"https", row.studioDomain>>
    ELSE IF studioRunning
        THEN <<"http", "localhost", getProjectPorts(row.envVars).studioPort>>
    ELSE Null

\* status/route.ts lines 13-30.
StatusBegin(w, id, auth) ==
    /\ req[w].pc = "idle"
    /\ LET r == NewRequest("STATUS", id, auth, Undefined, Undefined)
       IN  IF SessionCheck(auth) /= "ok" THEN Set(w, Error(r, 401, SessionCheck(auth)))
           ELSE Set(w, [r EXCEPT !.pc = "findProject"])
    /\ Receive
    /\ UNCHANGED <<db, files, others, resolved>>

\* The handler without its "if (!project)" answer.
StatusFindProjectUnchecked(w) ==
    /\ At(w, "STATUS", "findProject")
    /\ Set(w, [req[w] EXCEPT !.pc = "docker"])
    /\ UNCHANGED <<db, files, served, others, resolved>>

\* Lines 32-52: the persisted fields are read once, here.
StatusFindProject(w) ==
    /\ At(w, "STATUS", "findProject")
    /\ LET r == req[w]
       IN  IF r.id \notin DOMAIN db THEN Set(w, Error(r, 404, "Project not found"))
           ELSE Set(w, [r EXCEPT !.project = [slug |-> db[r.id].slug,
                                              status |-> db[r.id].status,
                                              deployStatus |-> db[r.id].deployStatus,
                                              lastDeployAt |-> db[r.id].lastDeployAt,
                                              lastDeployError |-> db[r.id].lastDeployError],
                                 !.pc = "docker"])
    /\ UNCHANGED <<db, files, served, others, resolved>>

\* Lines 54-55.
StatusDocker(w) ==
    /\ At(w, "STATUS", "docker")
    /\ \E live \in DockerStatuses :
          Set(w, [req[w] EXCEPT !.docker = getProjectDockerStatus(live).status,
                                !.orchCalls = @ + 1,
                                !.pc = "studioUrl"])
    /\ UNCHANGED <<db, files, served, others, resolved>>

\* The response with one status: the live value put in projectStatus too.
StatusRespondMerged(w) ==
    /\ At(w, "STATUS", "studioUrl")
    /\ \E studioRunning \in BOOLEAN :
          LET r == req[w]
          IN  Set(w, Respond([r EXCEPT !.orchCalls = @ + 1], 200,
                     [projectStatus |-> r.docker,
                      deployStatus |-> r.project.deployStatus,
                      lastDeployAt |-> r.project.lastDeployAt,
                      lastDeployError |-> r.project.lastDeployError,
                      docker |-> [status |-> r.docker],
                      studioUrl |-> getProjectStudioUrl(db[r.id], studioRunning)]))
    /\ UNCHANGED <<db, files, served, others, resolved>>

\* Lines 57-67.
StatusRespond(w) ==
    /\ At(w, "STATUS", "studioUrl")
    /\ \E studioRunning \in BOOLEAN :
          LET r == req[w]
          IN  Set(w, Respond([r EXCEPT !.orchCalls = @ + 1], 200,
                     [projectStatus |-> r.project.status,
                      deployStatus |-> r.project.deployStatus,
                      lastDeployAt |-> r.project.lastDeployAt,
                      lastDeployError |-> r.project.lastDeployError,
                      docker |-> [status |-> r.docker],
                      studioUrl |-> getProjectStudioUrl(db[r.id], studioRunning)]))
    /\ UNCHANGED <<db, files, served, others, resolved>>

\* Lines 79-96.
LogsBegin(w, id, auth) ==
    /\ req[w].pc = "idle"
    /\ LET r == NewRequest("LOGS", id, auth, Undefined, Undefined)
       IN  IF SessionCheck(auth) /= "ok" THEN Set(w, Error(r, 401, SessionCheck(auth)))
           ELSE Set(w, [r EXCEPT !.pc = "findProject"])
    /\ Receive
    /\ UNCHANGED <<db, files, others, resolved>>

\* Lines 98-109.
LogsFindProject(w) ==
    /\ At(w, "LOGS", "findProject")
    /\ LET r == req[w]
       IN  IF r.id \notin DOMAIN db THEN Set(w, Error(r, 404, "Project not found"))
           ELSE Set(w, [r EXCEPT !.project = [slug |-> db[r.id].slug], !.pc = "logs"])
    /\ UNCHANGED <<db, files, served, others, resolved>>

\* Lines 111-127: getProjectContainerLogs answers {success, logs} or
\* {success: false, error}.
LogsFetch(w) ==
    /\ At(w, "LOGS", "logs")
    /\ LET r == [req[w] EXCEPT !.orchCalls = @ + 1]
       IN  \/ Set(w, Respond(r, 200, [logs |-> "logs"]))
           \/ Set(w, Error(r, 500, "logs unavailable"))
    /\ UNCHANGED <<db, files, served, others, resolved>>

\* The response is delivered; the worker takes the next request.
Finish(w) ==
    /\ req[w].pc = "done"
    /\ Set(w, Idle)
    /\ UNCHANGED <<db, files, served, others, resolved>>

-----------------------------------------------------------------------------
(* Specifications.                                                          *)

\* The dashboard before its first load: no project listed, no status known.
DashIdle ==
    [pc |-> "idle", projects |-> <<>>, projectStatuses |-> <<>>,
     statuses |-> <<>>, pending |-> {}, outcome |-> <<>>, loads |-> 0]

\* No library function has been called directly.
NoCall == [op |-> "none"]

\* A fresh installation: no panel domain, no panel.yml, no user.
OthersInit ==
    /\ settings = {}
    /\ server = [containers |-> {}, dirs |-> Slugs]
    /\ resolved = [id \in ExistingIds |-> [domain |-> FALSE, studioDomain |-> FALSE]]
    /\ users = {}
    /\ dash = DashIdle
    /\ lib = NoCall
    /\ now = 0

\* Two projects just created (draft, no domain), an empty routing directory.
Init ==
    /\ db = [id \in ExistingIds |-> NewProject(id, "draft")]
    /\ files = [s \in FileNames |-> NoFile]
    /\ req = [w \in Workers |-> Idle]
    /\ served = 0
    /\ OthersInit

\* The requests a client sends.  A request without a valid session is
\* answered before its id and body are read, so one such request stands for
\* all of them.
Targets(auth) == IF auth = "valid" THEN Ids ELSE {MissingId}

Bodies(auth) == IF auth = "valid" THEN DomainInputs ELSE {Undefined}

\* Requests served one at a time, by one worker.
Next ==
    \E w \in {1} :
        \/ \E auth \in Auths : \E id \in Targets(auth) :
              \E domain \in Bodies(auth), studioDomain \in Bodies(auth) :
                 PutBegin(w, id, auth, domain, studioDomain)
        \/ PutFindProject(w)
        \/ PutCheckApi(w)
        \/ PutCheckStudio(w)
        \/ PutVerifyDns(w)
        \/ PutUpdate(w)
        \/ PutRender(w)
        \/ \E auth \in Auths : \E id \in Targets(auth) : DeleteBegin(w, id, auth)
        \/ DeleteFindProject(w)
        \/ DeleteUpdate(w)
        \/ DeleteRemove(w)
        \/ \E auth \in Auths : \E id \in Targets(auth) : GetBegin(w, id, auth)
        \/ GetFindProject(w)
        \/ \E auth \in Auths : \E id \in Targets(auth) : StatusBegin(w, id, auth)
        \/ StatusFindProject(w)
        \/ StatusDocker(w)
        \/ StatusRespond(w)
        \/ \E auth \in Auths : \E id \in Targets(auth) : LogsBegin(w, id, auth)
        \/ LogsFindProject(w)
        \/ LogsFetch(w)
        \/ Finish(w)

Spec == Init /\ [][Next]_vars

\* The requests that race in ConcSpec: authenticated Set-domain and
\* Remove-domain requests on existing projects (every other request is
\* answered by its first or second step and writes nothing).
RacingInputs == {Undefined} \cup GoodDomains

\* Set-domain and Remove-domain requests served concurrently: the steps of
\* the workers' requests interleave at the awaits.
ConcNext ==
    \E w \in Workers :
        \/ \E id \in ExistingIds, domain \in RacingInputs, studioDomain \in RacingInputs :
              PutBegin(w, id, "valid", domain, studioDomain)
        \/ PutFindProject(w)
        \/ PutCheckApi(w)
        \/ PutCheckStudio(w)
        \/ PutVerifyDns(w)
        \/ PutUpdate(w)
        \/ PutRender(w)
        \/ \E id \in ExistingIds : DeleteBegin(w, id, "valid")
        \/ DeleteFindProject(w)
        \/ DeleteUpdate(w)
        \/ DeleteRemove(w)
        \/ Finish(w)

ConcSpec == Init /\ [][ConcNext]_vars

\* A project record as the lifecycle leaves it in each administrative
\* status: the audit trail is empty before the first deploy, and
\* lastDeployError is set exactly after a failed one.
DeployedProject(id, status) ==
    [NewProject(id, status) EXCEPT
        !.deployStatus = IF status = "draft" THEN Null ELSE <<status>>,
        !.lastDeployAt = IF status = "draft" THEN Null ELSE <<"t">>,
        !.lastDeployError = IF status = "failed" THEN <<"e">> ELSE Null]

\* Status polls and log reads of projects in any administrative status.
StatusInit ==
    /\ \E statuses \in [ExistingIds -> ProjectStatuses] :
          db = [id \in ExistingIds |-> DeployedProject(id, statuses[id])]
    /\ files = [s \in FileNames |-> NoFile]
    /\ req = [w \in Workers |-> Idle]
    /\ served = 0
    /\ OthersInit

StatusNext ==
    \E w \in {1} :
        \/ \E auth \in Auths : \E id \in Targets(auth) : StatusBegin(w, id, auth)
        \/ StatusFindProject(w)
        \/ StatusDocker(w)
        \/ StatusRespond(w)
        \/ \E auth \in Auths : \E id \in Targets(auth) : LogsBegin(w, id, auth)
        \/ LogsFindProject(w)
        \/ LogsFetch(w)
        \/ Finish(w)

StatusSpec == StatusInit /\ [][StatusNext]_vars

-----------------------------------------------------------------------------
(* GET, PUT and DELETE /api/settings/panel-domain, with                     *)
(* generatePanelTraefikConfig and removePanelTraefikConfig.                 *)

\* b.toString()
BoolString(b) == IF b THEN <<"t", "r", "u", "e">> ELSE <<"f", "a", "l", "s", "e">>

\* prisma.panelSettings.upsert({ where: { key }, update: { value },
\* create: { key, value } }): the table afterwards.
Upsert(rows, key, value) ==
    IF \E row \in rows : row.key = key
        THEN {IF row.key = key THEN [row EXCEPT !.value = value] ELSE row : row \in rows}
    ELSE rows \cup {[key |-> key, value |-> value]}

\* prisma.panelSettings.deleteMany({ where: { key: { in: keys } } })
DeleteMany(rows, keys) == {row \in rows : row.key \notin keys}

\* prisma.panelSettings.findUnique({ where: { key } })?.value
SettingValue(rows, key) ==
    IF \E row \in rows : row.key = key
        THEN (CHOOSE row \in rows : row.key = key).value
    ELSE Undefined

\* The document generatePanelTraefikConfig(domain) writes to panel.yml.
PanelDocument(domain) ==
    [exists |-> TRUE,
     routers |->
        {Router(<<"supapanel">>, domain, "websecure", <<"supapanel">>,
                "letsencrypt", "none", 100),
         Router(<<"supapanel-http">>, domain, "web", <<"supapanel">>,
                "none", "https-redirect", 50)},
     middlewares |-> {"https-redirect"},
     services |-> {[name |-> <<"supapanel">>, host |-> <<"supapanel-panel">>,
                    port |-> 3000, healthCheck |-> FALSE]}]

\* The comment-only document removePanelTraefikConfig writes.
PanelPlaceholder == [exists |-> TRUE, routers |-> {}, middlewares |-> {}, services |-> {}]

\* The name of the panel's own routing file, panel.yml.
PanelFile == "panel"

\* fs.writeFile(configPath, traefikConfig) of generatePanelTraefikConfig.
generatePanelTraefikConfig(fs, domain) == [fs EXCEPT ![PanelFile] = PanelDocument(domain)]

\* fs.writeFile(configPath, emptyConfig) of removePanelTraefikConfig.
removePanelTraefikConfig(fs) == [fs EXCEPT ![PanelFile] = PanelPlaceholder]

\* The request of a panel-domain handler (the handlers take no project id).
PanelRequest(kind, auth, domain) == NewRequest(kind, "panel", auth, domain, Undefined)

\* status/route.ts lines 184-205: session, body, "Domain is required", format.
PanelPutBegin(w, auth, domain) ==
    /\ req[w].pc = "idle"
    /\ LET r == PanelRequest("PANEL_PUT", auth, domain)
       IN  IF SessionCheck(auth) /= "ok" THEN Set(w, Error(r, 401, SessionCheck(auth)))
           ELSE IF ~Truthy(domain) THEN Set(w, Error(r, 400, "Domain is required"))
           ELSE IF ~DomainRegexTest(domain) THEN Set(w, Error(r, 400, "Invalid domain format"))
           ELSE Set(w, [r EXCEPT !.pc = "verifyDns"])
    /\ Receive
    /\ UNCHANGED <<db, files, others, resolved>>

\* Line 208.
PanelPutVerifyDns(w) ==
    /\ At(w, "PANEL_PUT", "verifyDns")
    /\ \E outcome \in DnsOutcomes :
          Set(w, [req[w] EXCEPT !.apiDnsValid = verifyDomainDNS(outcome),
                                !.dnsLookups = @ + 1,
                                !.pc = "upsertDomain"])
    /\ UNCHANGED <<db, files, served, others, resolved>>

\* Lines 211-215.
PanelPutUpsertDomain(w) ==
    /\ At(w, "PANEL_PUT", "upsertDomain")
    /\ settings' = Upsert(settings, "panel_domain", req[w].domain)
    /\ Set(w, [req[w] EXCEPT !.dbWrites = @ + 1, !.pc = "upsertVerified"])
    /\ UNCHANGED <<db, files, served, users, dash, lib, now, server, resolved>>

\* Lines 218-222.
PanelPutUpsertVerified(w) ==
    /\ At(w, "PANEL_PUT", "upsertVerified")
    /\ settings' = Upsert(settings, "panel_domain_verified", BoolString(req[w].apiDnsValid))
    /\ Set(w, [req[w] EXCEPT !.dbWrites = @ + 1, !.pc = "render"])
    /\ UNCHANGED <<db, files, served, users, dash, lib, now, server, resolved>>

\* Lines 225-238: panel.yml is written and the answer is 200, or mkdir or
\* writeFile throws and the catch answers 500.
PanelPutRender(w) ==
    /\ At(w, "PANEL_PUT", "render")
    /\ LET r == [req[w] EXCEPT !.fileOps = @ + 1]
       IN  \/ /\ files' = generatePanelTraefikConfig(files, r.domain)
               /\ Set(w, Respond(r, 200, [success |-> TRUE, domain |-> r.domain,
                                          verified |-> r.apiDnsValid]))
           \/ /\ files' = files
               /\ Set(w, Error([r EXCEPT !.ioFault = TRUE], 500, "Internal server error"))
    /\ UNCHANGED <<db, served, settings, users, dash, lib, now, server, resolved>>

\* Lines 247-256.
PanelDeleteBegin(w, auth) ==
    /\ req[w].pc = "idle"
    /\ LET r == PanelRequest("PANEL_DELETE", auth, Undefined)
       IN  IF SessionCheck(auth) /= "ok" THEN Set(w, Error(r, 401, SessionCheck(auth)))
           ELSE Set(w, [r EXCEPT !.pc = "deleteMany"])
    /\ Receive
    /\ UNCHANGED <<db, files, others, resolved>>

\* Lines 259-265.
PanelDeleteRows(w) ==
    /\ At(w, "PANEL_DELETE", "deleteMany")
    /\ settings' = DeleteMany(settings, {"panel_domain", "panel_domain_verified"})
    /\ Set(w, [req[w] EXCEPT !.dbWrites = @ + 1, !.pc = "remove"])
    /\ UNCHANGED <<db, files, served, users, dash, lib, now, server, resolved>>

\* Lines 268-274 and removePanelTraefikConfig: the placeholder is written, or
\* writeFile throws (there is no mkdir: ENOENT without the directory) and the
\* catch of traefik.ts:260 swallows the error; the answer is 200 either way.
PanelDeleteFile(w) ==
    /\ At(w, "PANEL_DELETE", "remove")
    /\ LET r == [req[w] EXCEPT !.fileOps = @ + 1]
       IN  \/ /\ files' = removePanelTraefikConfig(files)
               /\ Set(w, Respond(r, 200, [success |-> TRUE]))
           \/ /\ files' = files
               /\ Set(w, Respond([r EXCEPT !.ioFault = TRUE], 200, [success |-> TRUE]))
    /\ UNCHANGED <<db, served, settings, users, dash, lib, now, server, resolved>>

\* Lines 149-158.
PanelGetBegin(w, auth) ==
    /\ req[w].pc = "idle"
    /\ LET r == PanelRequest("PANEL_GET", auth, Undefined)
       IN  IF SessionCheck(auth) /= "ok" THEN Set(w, Error(r, 401, SessionCheck(auth)))
           ELSE Set(w, [r EXCEPT !.pc = "findDomain"])
    /\ Receive
    /\ UNCHANGED <<db, files, others, resolved>>

\* Lines 160-162.
PanelGetDomain(w) ==
    /\ At(w, "PANEL_GET", "findDomain")
    /\ Set(w, [req[w] EXCEPT !.domain = SettingValue(settings, "panel_domain"),
                             !.pc = "findVerified"])
    /\ UNCHANGED <<db, files, served, others, resolved>>

\* Lines 164-171.
PanelGetVerified(w) ==
    /\ At(w, "PANEL_GET", "findVerified")
    /\ LET r == req[w]
       IN  Set(w, Respond(r, 200,
                  [domain |-> OrElse(r.domain, Null),
                   verified |-> SettingValue(settings, "panel_domain_verified")
                                  = BoolString(TRUE)]))
    /\ UNCHANGED <<db, files, served, others, resolved>>

\* Panel-domain requests and project Set-domain requests, one at a time.
PanelNext ==
    \E w \in {1} :
        \/ \E auth \in Auths : \E domain \in Bodies(auth) : PanelPutBegin(w, auth, domain)
        \/ PanelPutVerifyDns(w)
        \/ PanelPutUpsertDomain(w)
        \/ PanelPutUpsertVerified(w)
        \/ PanelPutRender(w)
        \/ \E auth \in Auths : PanelDeleteBegin(w, auth)
        \/ PanelDeleteRows(w)
        \/ PanelDeleteFile(w)
        \/ \E auth \in Auths : PanelGetBegin(w, auth)
        \/ PanelGetDomain(w)
        \/ PanelGetVerified(w)
        \/ \E id \in ExistingIds, domain \in RacingInputs, studioDomain \in RacingInputs :
              PutBegin(w, id, "valid", domain, studioDomain)
        \/ PutFindProject(w)
        \/ PutCheckApi(w)
        \/ PutCheckStudio(w)
        \/ PutVerifyDns(w)
        \/ PutUpdate(w)
        \/ PutRender(w)
        \/ Finish(w)

PanelSpec == Init /\ [][PanelNext]_vars

-----------------------------------------------------------------------------
(* POST /api/auth/register and GET /api/auth/registration-status            *)

\* email.toLowerCase()
ToLowerCase(s) ==
    [i \in DOMAIN s |-> CASE s[i] = "A" -> "a" [] s[i] = "B" -> "b" [] OTHER -> s[i]]

\* The e-mail addresses and passwords request bodies carry.
Emails == {<<"a", "@", "x">>, <<"A", "@", "x">>, <<"b", "@", "x">>}

EmailInputs == {Undefined, EmptyStr} \cup Emails

PasswordInputs == {Undefined, <<"p", "w">>}

RegisterRequest(kind, email, password) ==
    [pc |-> "begin", kind |-> kind, email |-> email, password |-> password,
     userCount |-> 0, resp |-> NoResp,
     \* history: the users when the request began, the rows it created
     pre |-> [users |-> users], created |-> 0]

\* part_004 lines 7-14: the body is read; email and password are required.
RegisterBegin(w, email, password) ==
    /\ req[w].pc = "idle"
    /\ LET r == RegisterRequest("REGISTER", email, password)
       IN  IF ~Truthy(email) \/ ~Truthy(password)
               THEN Set(w, Error(r, 400, "Email and password are required"))
           ELSE Set(w, [r EXCEPT !.pc = "count"])
    /\ Receive
    /\ UNCHANGED <<db, files, others, resolved>>

\* Lines 16-23: prisma.user.count(); registration is closed once a user exists.
RegisterCount(w) ==
    /\ At(w, "REGISTER", "count")
    /\ LET r == [req[w] EXCEPT !.userCount = Cardinality(users)]
       IN  IF r.userCount > 0
               THEN Set(w, Error(r, 403, "Registration is closed"))
           ELSE Set(w, [r EXCEPT !.pc = "findUser"])
    /\ UNCHANGED <<db, files, served, others, resolved>>

\* Lines 25-35: prisma.user.findUnique({ where: { email } }).
RegisterFindUser(w) ==
    /\ At(w, "REGISTER", "findUser")
    /\ LET r == req[w]
       IN  IF \E u \in users : u.email = ToLowerCase(r.email)
               THEN Set(w, Error(r, 400, "User already exists"))
           ELSE Set(w, [r EXCEPT !.pc = "create"])
    /\ UNCHANGED <<db, files, served, others, resolved>>

\* Lines 37-47: the password is hashed and the user row is created; the
\* e-mail column is unique, so a create of a stored e-mail throws and the
\* catch of line 69 answers 500.
RegisterCreate(w) ==
    /\ At(w, "REGISTER", "create")
    /\ LET r == req[w]
           email == ToLowerCase(r.email)
       IN  IF \E u \in users : u.email = email
               THEN /\ users' = users
                    /\ Set(w, Error(r, 500, "Internal server error"))
           ELSE /\ users' = users \cup {[email |-> email]}
                /\ Set(w, [r EXCEPT !.created = @ + 1, !.pc = "session"])
    /\ UNCHANGED <<db, files, served, settings, dash, lib, now, server, resolved>>

\* Lines 49-68: createSession, the cookie, the answer.
RegisterRespond(w) ==
    /\ At(w, "REGISTER", "session")
    /\ LET r == req[w]
       IN  Set(w, Respond(r, 200, [user |-> [email |-> ToLowerCase(r.email)]]))
    /\ UNCHANGED <<db, files, served, others, resolved>>

\* registration-status/route.ts lines 9-18: one count, one answer.
RegistrationStatus(w) ==
    /\ req[w].pc = "idle"
    /\ LET r == [RegisterRequest("REGISTRATION_STATUS", Undefined, Undefined)
                    EXCEPT !.userCount = Cardinality(users)]
       IN  Set(w, Respond(r, 200, [registrationOpen |-> r.userCount = 0]))
    /\ Receive
    /\ UNCHANGED <<db, files, others, resolved>>

\* Registration requests served concurrently.
RegNext ==
    \E w \in Workers :
        \/ \E email \in EmailInputs, password \in PasswordInputs :
              RegisterBegin(w, email, password)
        \/ RegisterCount(w)
        \/ RegisterFindUser(w)
        \/ RegisterCreate(w)
        \/ RegisterRespond(w)
        \/ RegistrationStatus(w)
        \/ Finish(w)

RegSpec == Init /\ [][RegNext]_vars

-----------------------------------------------------------------------------
(* The Project Lifecycle Manager's Deploy operation: set status deploying,  *)
(* invoke the Orchestrator bring-up, record the outcome.                    *)

\* new Date() at the clock's reading.
Stamp(t) == <<"t", t>>

\* The outcomes of the Orchestrator bring-up: success, or a failure (non-zero
\* exit, timeout) caught and returned with its message.
UpOutcomes == {[success |-> TRUE, error |-> Null], [success |-> FALSE, error |-> <<"e">>]}

DeployRequest(id) ==
    NewRequest("DEPLOY", id, "valid", Undefined, Undefined) @@ [up |-> [success |-> FALSE, error |-> Null]]

\* The deploy request arrives; time has passed since the one before.
DeployBegin(w, id) ==
    /\ req[w].pc = "idle"
    /\ LET r == DeployRequest(id)
       IN  IF id \notin DOMAIN db THEN Set(w, Error(r, 404, "Project not found"))
           ELSE Set(w, [r EXCEPT !.pc = "setDeploying"])
    /\ Receive
    /\ now' = now + 1
    /\ UNCHANGED <<db, files, settings, users, dash, lib, server, resolved>>

\* The record that stays in deploying when the bring-up fails.
DeployOutcomeRowFailureIgnored(row, up, t) ==
    IF up.success
        THEN [row EXCEPT !.status = "running", !.deployStatus = <<"running">>,
                         !.lastDeployError = Null, !.lastDeployAt = Stamp(t)]
    ELSE row

\* The project record after the bring-up: running with the error cleared, or
\* failed with the error recorded; lastDeployAt stamped either way.
DeployOutcomeRow(row, up, t) ==
    IF up.success
        THEN [row EXCEPT !.status = "running", !.deployStatus = <<"running">>,
                         !.lastDeployError = Null, !.lastDeployAt = Stamp(t)]
    ELSE [row EXCEPT !.status = "failed", !.deployStatus = <<"failed">>,
                     !.lastDeployError = up.error, !.lastDeployAt = Stamp(t)]

\* Status is set to deploying.
DeploySetDeploying(w) ==
    /\ At(w, "DEPLOY", "setDeploying")
    /\ db' = [db EXCEPT ![req[w].id].status = "deploying",
                        ![req[w].id].deployStatus = <<"deploying">>]
    /\ Set(w, [req[w] EXCEPT !.dbWrites = @ + 1, !.pc = "up"])
    /\ UNCHANGED <<files, served, others, resolved>>

\* The Orchestrator bring-up is invoked.
DeployUp(w) ==
    /\ At(w, "DEPLOY", "up")
    /\ \E up \in UpOutcomes :
          Set(w, [req[w] EXCEPT !.up = up, !.orchCalls = @ + 1, !.pc = "record"])
    /\ UNCHANGED <<db, files, served, others, resolved>>

\* The outcome is recorded and the operation returns.
DeployRecord(w) ==
    /\ At(w, "DEPLOY", "record")
    /\ LET r == req[w]
           row == DeployOutcomeRow(db[r.id], r.up, now)
       IN  /\ db' = [db EXCEPT ![r.id] = row]
           /\ Set(w, Respond([r EXCEPT !.updatedProject = row, !.dbWrites = @ + 1],
                             IF r.up.success THEN 200 ELSE 500,
                             [success |-> r.up.success, error |-> r.up.error]))
    /\ UNCHANGED <<files, served, others, resolved>>

\* Projects in any administrative status a returned operation leaves.
DeployInit ==
    /\ \E statuses \in [ExistingIds -> ProjectStatuses \ {"deploying"}] :
          db = [id \in ExistingIds |-> DeployedProject(id, statuses[id])]
    /\ files = [s \in FileNames |-> NoFile]
    /\ req = [w \in Workers |-> Idle]
    /\ served = 0
    /\ OthersInit

\* Deploy requests, one at a time.
DeployNext ==
    \E w \in {1} :
        \/ \E id \in Ids : DeployBegin(w, id)
        \/ DeploySetDeploying(w)
        \/ DeployUp(w)
        \/ DeployRecord(w)
        \/ Finish(w)

DeploySpec == DeployInit /\ [][DeployNext]_vars

-----------------------------------------------------------------------------
(* The Project Lifecycle Manager's Delete operation: tear the containers    *)
(* down, remove the project directory, remove the routing file, delete the  *)
(* database record.                                                         *)

\* The order with the database record deleted first.
ProjectDeleteNextStepRecordFirst(step) ==
    CASE step = "begin" -> "deleteRecord"
      [] step = "deleteRecord" -> "teardown"
      [] step = "teardown" -> "removeDirectory"
      [] step = "removeDirectory" -> "removeRouting"
      [] step = "removeRouting" -> "respond"

\* The fixed order of the steps: containers, directory, routing file, record.
ProjectDeleteNextStep(step) ==
    CASE step = "begin" -> "teardown"
      [] step = "teardown" -> "removeDirectory"
      [] step = "removeDirectory" -> "removeRouting"
      [] step = "removeRouting" -> "deleteRecord"
      [] step = "deleteRecord" -> "respond"

\* The steps of a deletion: done with one, the request is at the next, or
\* answers 200 after the last.
ProjectDeleteAdvance(r, step) ==
    IF ProjectDeleteNextStep(step) = "respond" THEN Respond(r, 200, [success |-> TRUE])
    ELSE [r EXCEPT !.pc = ProjectDeleteNextStep(step)]

\* The outcomes of the Orchestrator's teardown.
DownOutcomes ==
    {[success |-> TRUE, error |-> Null], [success |-> FALSE, error |-> <<"e">>]}

\* The delete request arrives; the record is looked up for its slug.
ProjectDeleteBegin(w, id) ==
    /\ req[w].pc = "idle"
    /\ LET r == NewRequest("PROJECT_DELETE", id, "valid", Undefined, Undefined)
       IN  IF id \notin DOMAIN db THEN Set(w, Error(r, 404, "Project not found"))
           ELSE Set(w, ProjectDeleteAdvance(
                          [r EXCEPT !.project = [slug |-> db[id].slug,
                                                 envVars |-> db[id].envVars]],
                          "begin"))
    /\ Receive
    /\ UNCHANGED <<db, files, others, resolved>>

\* Stop and remove the containers via the Orchestrator; a teardown that fails
\* is surfaced as the operation's failure and nothing further is removed.
ProjectDeleteTeardown(w) ==
    /\ At(w, "PROJECT_DELETE", "teardown")
    /\ \E down \in DownOutcomes :
          LET r == [req[w] EXCEPT !.orchCalls = @ + 1]
          IN  IF down.success
              THEN /\ server' = [server EXCEPT !.containers = @ \ {r.project.slug}]
                   /\ Set(w, ProjectDeleteAdvance(r, "teardown"))
              ELSE /\ server' = server
                   /\ Set(w, Respond(r, 500, [success |-> FALSE, error |-> down.error]))
    /\ UNCHANGED <<db, files, served, settings, users, dash, lib, now, resolved>>

\* Remove the on-disk project directory.
ProjectDeleteDirectory(w) ==
    /\ At(w, "PROJECT_DELETE", "removeDirectory")
    /\ LET r == req[w]
       IN  /\ server' = [server EXCEPT !.dirs = @ \ {r.project.slug}]
           /\ Set(w, ProjectDeleteAdvance([r EXCEPT !.fileOps = @ + 1], "removeDirectory"))
    /\ UNCHANGED <<db, files, served, settings, users, dash, lib, now, resolved>>

\* Remove the routing file of the project.
ProjectDeleteRouting(w) ==
    /\ At(w, "PROJECT_DELETE", "removeRouting")
    /\ LET r == req[w]
       IN  /\ files' = removeProjectTraefikConfig(files, r.project.slug)
           /\ Set(w, ProjectDeleteAdvance([r EXCEPT !.fileOps = @ + 1], "removeRouting"))
    /\ UNCHANGED <<db, served, others, resolved>>

\* Delete the database record (its EnvVars are columns of the row and go with
\* it); deleting a record that is already gone fails.
ProjectDeleteRecord(w) ==
    /\ At(w, "PROJECT_DELETE", "deleteRecord")
    /\ LET r == req[w]
       IN  IF r.id \in DOMAIN db
           THEN /\ db' = [i \in DOMAIN db \ {r.id} |-> db[i]]
                /\ Set(w, ProjectDeleteAdvance([r EXCEPT !.dbWrites = @ + 1],
                                               "deleteRecord"))
           ELSE /\ db' = db
                /\ Set(w, Error(r, 500, "Internal server error"))
    /\ UNCHANGED <<files, served, others, resolved>>

\* The process dies between two steps of a deletion: the request is gone and
\* what it has removed so far stays removed.
ProjectDeleteCrash(w) ==
    /\ req[w].pc \in {"teardown", "removeDirectory", "removeRouting", "deleteRecord"}
    /\ req[w].kind = "PROJECT_DELETE"
    /\ Set(w, Idle)
    /\ UNCHANGED <<db, files, served, others, resolved>>

\* Projects of which any may have been deployed (containers exist) and any may
\* have a routing file.
ProjectDeleteInit ==
    /\ db = [id \in ExistingIds |-> NewProject(id, "draft")]
    /\ \E routed \in SUBSET Slugs :
          files = [s \in FileNames |->
                      IF s \in routed
                      THEN ProjectDocument([projectSlug |-> s, domain |-> D1,
                                            studioDomain |-> EmptyStr,
                                            kongPort |-> 8000, studioPort |-> 3000])
                      ELSE NoFile]
    /\ req = [w \in Workers |-> Idle]
    /\ served = 0
    /\ settings = {} /\ users = {} /\ dash = DashIdle /\ lib = NoCall /\ now = 0
    /\ \E deployed \in SUBSET Slugs : server = [containers |-> deployed, dirs |-> Slugs]
    /\ resolved = [id \in ExistingIds |-> [domain |-> FALSE, studioDomain |-> FALSE]]

\* Delete requests on both workers, with a crash possible between two steps.
ProjectDeleteNext ==
    \E w \in Workers :
        \/ \E id \in Ids : ProjectDeleteBegin(w, id)
        \/ ProjectDeleteTeardown(w)
        \/ ProjectDeleteDirectory(w)
        \/ ProjectDeleteRouting(w)
        \/ ProjectDeleteRecord(w)
        \/ ProjectDeleteCrash(w)
        \/ Finish(w)

ProjectDeleteSpec == ProjectDeleteInit /\ [][ProjectDeleteNext]_vars

-----------------------------------------------------------------------------
(* lib/traefik.ts called directly: the Port Allocator, the Routing Config   *)
(* Renderer and the DNS Verifier as functions of their arguments.           *)

\* The values an EnvVar row gives a port key ('' for "KEY=" without a value).
PortStrings ==
    {<<"8", "0", "8", "0">>, <<"3", "0", "0", "1">>, <<"8", "0">>, EmptyStr}

PortKeys == {"KONG_HTTP_PORT", "STUDIO_PORT"}

\* The environment-variable maps: any of the two keys, present or missing.
EnvVarMaps == UNION {[keys -> PortStrings] : keys \in SUBSET PortKeys}

\* The arguments a caller renders with ('' for a domain that is not set).
RenderConfigs ==
    [projectSlug : Slugs,
     domain : {EmptyStr} \cup GoodDomains,
     studioDomain : {EmptyStr} \cup GoodDomains,
     kongPort : {8000, 8080},
     studioPort : {3000}]

\* getProjectPorts(envVars) is called.
CallGetProjectPorts(envVars) ==
    /\ lib' = [op |-> "getProjectPorts", envVars |-> envVars,
               result |-> getProjectPorts(envVars)]
    /\ UNCHANGED <<db, files, req, served, settings, users, dash, now, server, resolved>>

\* generateProjectTraefikConfig(config) is called: the file is written, or
\* mkdir or writeFile throws and the error propagates to the caller.
CallGenerateProject(config) ==
    /\ \/ /\ files' = generateProjectTraefikConfig(files, config)
          /\ lib' = [op |-> "generateProjectTraefikConfig", config |-> config,
                     before |-> files, threw |-> FALSE]
       \/ /\ files' = files
          /\ lib' = [op |-> "generateProjectTraefikConfig", config |-> config,
                     before |-> files, threw |-> TRUE]
    /\ UNCHANGED <<db, req, served, settings, users, dash, now, server, resolved>>

\* removeProjectTraefikConfig(projectSlug) is called: the file is unlinked,
\* or unlink throws and the error is swallowed.
CallRemoveProject(projectSlug) ==
    /\ \/ files' = removeProjectTraefikConfig(files, projectSlug)
       \/ files' = files
    /\ lib' = [op |-> "removeProjectTraefikConfig", projectSlug |-> projectSlug,
               before |-> files, threw |-> FALSE]
    /\ UNCHANGED <<db, req, served, settings, users, dash, now, server, resolved>>

\* verifyDomainDNS(domain) is called: one dns.resolve4(domain), whose
\* outcome decides the result; the function keeps nothing between calls.
CallVerifyDomainDNS(domain) ==
    /\ \E outcome \in DnsOutcomes :
          lib' = [op |-> "verifyDomainDNS", domain |-> domain, outcome |-> outcome,
                  lookups |-> 1, result |-> verifyDomainDNS(outcome), threw |-> FALSE]
    /\ UNCHANGED <<db, files, req, served, settings, users, dash, now, server, resolved>>

LibNext ==
    \/ \E envVars \in EnvVarMaps : CallGetProjectPorts(envVars)
    \/ \E config \in RenderConfigs : CallGenerateProject(config)
    \/ \E projectSlug \in Slugs : CallRemoveProject(projectSlug)
    \/ \E domain \in GoodDomains \cup BadDomains : CallVerifyDomainDNS(domain)

LibSpec == Init /\ [][LibNext]_vars

-----------------------------------------------------------------------------
(* The dashboard page (app/dashboard/page.tsx): fetchProjects,              *)
(* fetchProjectStatuses and getStatusBadge.                                 *)

\* The answers fetch(`/api/projects/${id}/status`) can give: a 200 response
\* whose docker field carries the live status, a response that is not ok
\* (401, 404, 500), or a rejected fetch.
StatusFetchOutcomes ==
    {[ok |-> TRUE, threw |-> FALSE, live |-> l] : l \in DockerStatuses}
    \cup {[ok |-> FALSE, threw |-> FALSE, live |-> ""],
          [ok |-> FALSE, threw |-> TRUE, live |-> ""]}

\* getStatusBadge: String(dockerStatus || project.status), where
\* dockerStatus = projectStatuses[project.id]?.docker?.status is undefined
\* when the project has no entry (every docker status is a non-empty string).
getStatusBadge(project, projectStatuses) ==
    IF project.id \in DOMAIN projectStatuses
        THEN projectStatuses[project.id].docker.status
    ELSE project.status

\* The label of the badge (the switch of getStatusBadge).
BadgeLabel(status) ==
    CASE status = "running" -> "Running"
      [] status = "deploying" -> "Deploying..."
      [] status \in {"draft", "not_deployed"} -> "Draft"
      [] status \in {"failed", "error"} -> "Failed"
      [] status \in {"stopped", "partial"} -> "Stopped"
      [] OTHER -> status

\* fetchProjects: the project list is loaded and set, then
\* fetchProjectStatuses(data.projects) starts with an empty statuses record
\* and one fetch per project.
DashFetchProjects ==
    /\ dash.pc = "idle"
    /\ dash.loads < MaxLoads
    /\ dash' = [dash EXCEPT
           !.pc = "fetching",
           !.projects = [id \in ExistingIds |-> [id |-> id, status |-> db[id].status]],
           !.statuses = <<>>,
           !.pending = ExistingIds,
           !.outcome = <<>>,
           !.loads = @ + 1]
    /\ UNCHANGED <<db, files, req, served, settings, users, lib, now, server, resolved>>

\* One callback of projectList.map: the entry is recorded when the response
\* is ok; a response that is not ok and a rejected fetch record nothing.
DashFetchStatus(id) ==
    /\ dash.pc = "fetching"
    /\ id \in dash.pending
    /\ \E o \in StatusFetchOutcomes :
          dash' = [dash EXCEPT
              !.pending = @ \ {id},
              !.outcome = (id :> o) @@ @,
              !.statuses = IF o.ok
                             THEN (id :> [docker |-> [status |-> o.live],
                                          studioUrl |-> Null,
                                          lastDeployError |-> db[id].lastDeployError]) @@ @
                           ELSE @]
    /\ UNCHANGED <<db, files, req, served, settings, users, lib, now, server, resolved>>

\* Promise.all has settled: setProjectStatuses(statuses).
DashSetStatuses ==
    /\ dash.pc = "fetching"
    /\ dash.pending = {}
    /\ dash' = [dash EXCEPT !.pc = "idle", !.projectStatuses = dash.statuses]
    /\ UNCHANGED <<db, files, req, served, settings, users, lib, now, server, resolved>>

DashNext ==
    \/ DashFetchProjects
    \/ \E id \in ExistingIds : DashFetchStatus(id)
    \/ DashSetStatuses

\* The dashboard of a panel whose projects are in any administrative status.
DashSpec == StatusInit /\ [][DashNext]_vars

-----------------------------------------------------------------------------
(* The routing directory shared by the projects and the panel.              *)

\* Slugs project creation gives the first project: creation derives the slug
\* from the project's name (URL/DNS-safe, unique); a project named "Panel"
\* gets the slug "panel".
CreatableSlugs == {Slug("p1"), "panel"}

\* The first project was created under any of the names.
AliasInit ==
    /\ \E slug \in CreatableSlugs :
          db = [id \in ExistingIds |->
                  [NewProject(id, "draft") EXCEPT !.slug = IF id = "p1" THEN slug ELSE @]]
    /\ files = [s \in FileNames |-> NoFile]
    /\ req = [w \in Workers |-> Idle]
    /\ served = 0
    /\ OthersInit

\* Project-domain and panel-domain requests, one at a time.
AliasNext ==
    \E w \in {1} :
        \/ \E domain \in GoodDomains : PanelPutBegin(w, "valid", domain)
        \/ PanelPutVerifyDns(w)
        \/ PanelPutUpsertDomain(w)
        \/ PanelPutUpsertVerified(w)
        \/ PanelPutRender(w)
        \/ PanelDeleteBegin(w, "valid")
        \/ PanelDeleteRows(w)
        \/ PanelDeleteFile(w)
        \/ \E id \in ExistingIds, domain \in RacingInputs, studioDomain \in RacingInputs :
              PutBegin(w, id, "valid", domain, studioDomain)
        \/ PutFindProject(w)
        \/ PutCheckApi(w)
        \/ PutCheckStudio(w)
        \/ PutVerifyDns(w)
        \/ PutUpdate(w)
        \/ PutRender(w)
        \/ \E id \in ExistingIds : DeleteBegin(w, id, "valid")
        \/ DeleteFindProject(w)
        \/ DeleteUpdate(w)
        \/ DeleteRemove(w)
        \/ Finish(w)

AliasSpec == AliasInit /\ [][AliasNext]_vars

-----------------------------------------------------------------------------
(* Panel-domain requests served concurrently.                               *)

\* Authenticated panel Set, Remove and Get requests whose steps interleave at
\* the awaits.
PanelConcNext ==
    \E w \in Workers :
        \/ \E domain \in GoodDomains : PanelPutBegin(w, "valid", domain)
        \/ PanelPutVerifyDns(w)
        \/ PanelPutUpsertDomain(w)
        \/ PanelPutUpsertVerified(w)
        \/ PanelPutRender(w)
        \/ PanelDeleteBegin(w, "valid")
        \/ PanelDeleteRows(w)
        \/ PanelDeleteFile(w)
        \/ PanelGetBegin(w, "valid")
        \/ PanelGetDomain(w)
        \/ PanelGetVerified(w)
        \/ Finish(w)

PanelConcSpec == Init /\ [][PanelConcNext]_vars

-----------------------------------------------------------------------------
(* Every endpoint, with and without a session.                              *)

\* Requests to the project-domain, status, logs and panel-domain endpoints,
\* one at a time; a request without a valid session names an existing project
\* and carries a well-formed body like any other.
ApiNext ==
    \E w \in {1} :
        \/ \E auth \in Auths, id \in Ids :
              \E domain \in RacingInputs, studioDomain \in RacingInputs :
                 PutBegin(w, id, auth, domain, studioDomain)
        \/ PutFindProject(w)
        \/ PutCheckApi(w)
        \/ PutCheckStudio(w)
        \/ PutVerifyDns(w)
        \/ PutUpdate(w)
        \/ PutRender(w)
        \/ \E auth \in Auths, id \in Ids : DeleteBegin(w, id, auth)
        \/ DeleteFindProject(w)
        \/ DeleteUpdate(w)
        \/ DeleteRemove(w)
        \/ \E auth \in Auths, id \in Ids : GetBegin(w, id, auth)
        \/ GetFindProject(w)
        \/ \E auth \in Auths, id \in Ids : StatusBegin(w, id, auth)
        \/ StatusFindProject(w)
        \/ StatusDocker(w)
        \/ StatusRespond(w)
        \/ \E auth \in Auths, id \in Ids : LogsBegin(w, id, auth)
        \/ LogsFindProject(w)
        \/ LogsFetch(w)
        \/ \E auth \in Auths, domain \in RacingInputs : PanelPutBegin(w, auth, domain)
        \/ PanelPutVerifyDns(w)
        \/ PanelPutUpsertDomain(w)
        \/ PanelPutUpsertVerified(w)
        \/ PanelPutRender(w)
        \/ \E auth \in Auths : PanelDeleteBegin(w, auth)
        \/ PanelDeleteRows(w)
        \/ PanelDeleteFile(w)
        \/ \E auth \in Auths : PanelGetBegin(w, auth)
        \/ PanelGetDomain(w)
        \/ PanelGetVerified(w)
        \/ Finish(w)

ApiSpec == Init /\ [][ApiNext]_vars

-----------------------------------------------------------------------------
(* Properties.                                                              *)

\* The request worker w serves, when it serves one.
Serving(w) == req[w].pc /= "idle"

Answered(w) == req[w].pc = "done"

\* An authenticated Set-domain request on an existing project whose body
\* passes the format checks (the strings of GoodDomains are well-formed,
\* those of BadDomains are not).
IsSetDomain(r) == r.kind = "PUT" /\ r.auth = "valid"

BodyWellFormed(r) ==
    /\ r.domain \notin BadDomains
    /\ r.studioDomain \notin BadDomains
    /\ r.domain \in GoodDomains \/ r.studioDomain \in GoodDomains

\* The request has changed neither a project record nor a routing file, and
\* has made no lookup, database write, file operation or orchestrator call.
NoEffect(r) ==
    /\ db = r.pre.db
    /\ files = r.pre.files
    /\ r.dnsLookups = 0
    /\ r.dbWrites = 0
    /\ r.fileOps = 0
    /\ r.orchCalls = 0

\* The file routes host to service: the HTTPS router, the HTTP-redirect
\* router and the service declaration are all there.
HttpsRouter(file, host, service) ==
    \E x \in file.routers :
        /\ x.rule = host /\ x.service = service
        /\ x.entryPoint = "websecure" /\ x.certResolver = "letsencrypt"

RedirectRouter(file, host, service) ==
    \E x \in file.routers :
        /\ x.rule = host /\ x.service = service
        /\ x.entryPoint = "web" /\ x.middleware = "https-redirect"

Routes(file, host, service) ==
    /\ file.exists
    /\ HttpsRouter(file, host, service)
    /\ RedirectRouter(file, host, service)
    /\ \E x \in file.services : x.name = service

ApiOf(id) == <<Slug(id), "api">>
StudioOf(id) == <<Slug(id), "studio">>

\* C1: requests one at a time; project A holds API domain d; a Set-domain
\* request on another project B with domain = d (and a body that passes the
\* format checks) is answered 409, and B's record and B's routing file stay
\* what they were before the request.
C1_ConflictRejected ==
    \A w \in Workers :
        LET r == req[w]
        IN  (/\ Serving(w) /\ IsSetDomain(r) /\ r.id \in ExistingIds
             /\ r.domain \in GoodDomains /\ r.studioDomain \notin BadDomains
             /\ \E a \in ExistingIds \ {r.id} : r.pre.db[a].domain = r.domain)
            => /\ db[r.id] = r.pre.db[r.id]
               /\ files[Slug(r.id)] = r.pre.files[Slug(r.id)]
               /\ Answered(w) => r.resp.status = 409

C1_Witness ==
    \E w \in Workers :
        LET r == req[w]
        IN  /\ Answered(w) /\ IsSetDomain(r) /\ r.id \in ExistingIds
            /\ r.domain \in GoodDomains
            /\ \E a \in ExistingIds \ {r.id} : r.pre.db[a].domain = r.domain
            /\ r.resp.status = 409

\* C2: under any interleaving of Set-domain and Remove-domain requests, no
\* non-null domain value is stored (as domain or studioDomain) by two
\* distinct projects.
C2_DomainsUniqueAcrossProjects ==
    \A a \in ExistingIds, b \in ExistingIds :
        a /= b =>
            ({db[a].domain, db[a].studioDomain} \cap {db[b].domain, db[b].studioDomain})
                \subseteq {Null}

\* C3: a Set-domain request on B whose API or Studio domain equals a value
\* another project A stores in either attribute is answered 409.
C3_CrossAttributeConflictRejected ==
    \A w \in Workers :
        LET r == req[w]
        IN  (/\ Answered(w) /\ IsSetDomain(r) /\ r.id \in ExistingIds
             /\ BodyWellFormed(r)
             /\ \E a \in ExistingIds \ {r.id} :
                   ({r.domain, r.studioDomain} \cap GoodDomains)
                   \cap {r.pre.db[a].domain, r.pre.db[a].studioDomain} /= {})
            => r.resp.status = 409

\* C4: whenever no domain request for project P is in flight, every
\* Host(domain) rule in P's routing file names a value the database stores
\* as P.domain or P.studioDomain.
C4_FileNamesOnlyStoredDomains ==
    \A id \in ExistingIds :
        (\A w \in Workers : Serving(w) /\ ~Answered(w) => req[w].id /= id)
        => \A x \in files[Slug(id)].routers :
              x.rule \in {db[id].domain, db[id].studioDomain}

\* C5: a successful Set-domain request that gives only one of the two keys
\* leaves the other domain and its verified flag as stored, and the file it
\* writes routes both the new domain and the stored other domain.
C5_OtherDomainKept ==
    \A w \in Workers :
        LET r == req[w]
            old == r.pre.db[r.id]
            file == files[Slug(r.id)]
        IN  (Answered(w) /\ IsSetDomain(r) /\ r.resp.status = 200)
            => /\ r.studioDomain = Undefined
                    => /\ db[r.id].studioDomain = old.studioDomain
                       /\ db[r.id].studioDomainVerified = old.studioDomainVerified
                       /\ Routes(file, r.domain, ApiOf(r.id))
                       /\ Truthy(old.studioDomain)
                             => Routes(file, old.studioDomain, StudioOf(r.id))
               /\ r.domain = Undefined
                    => /\ db[r.id].domain = old.domain
                       /\ db[r.id].domainVerified = old.domainVerified
                       /\ Routes(file, r.studioDomain, StudioOf(r.id))
                       /\ Truthy(old.domain)
                             => Routes(file, old.domain, ApiOf(r.id))

C5_Witness ==
    \E w \in Workers :
        LET r == req[w]
        IN  /\ Answered(w) /\ IsSetDomain(r) /\ r.resp.status = 200
            /\ r.studioDomain = Undefined
            /\ r.pre.db[r.id].studioDomain \in GoodDomains
            /\ r.pre.db[r.id].studioDomainVerified
            /\ r.domain /= r.pre.db[r.id].domain

\* C6: after a Remove-domain request on a project whose routing file
\* exists, the file still exists and holds no router and no service.
C6_RemoveLeavesPlaceholder ==
    \A w \in Workers :
        LET r == req[w]
        IN  (/\ Answered(w) /\ r.kind = "DELETE" /\ r.resp.status = 200
             /\ r.pre.files[Slug(r.id)].exists)
            => /\ files[Slug(r.id)].exists
               /\ files[Slug(r.id)].routers = {}
               /\ files[Slug(r.id)].services = {}

\* C7: a Set-domain request with a well-formed, non-conflicting API domain
\* whose DNS lookup fails (and whose file write does not fail) succeeds:
\* verified = false in the response, the domain stored with domainVerified
\* = false, the file has the HTTPS router (certResolver letsencrypt) and the
\* HTTP-redirect router of the domain and, with no Studio domain, nothing
\* for Studio.
C7_DnsFailureStillSaves ==
    \A w \in Workers :
        LET r == req[w]
            file == files[Slug(r.id)]
        IN  (/\ Answered(w) /\ IsSetDomain(r) /\ r.id \in ExistingIds
             /\ r.domain \in GoodDomains /\ r.studioDomain \notin BadDomains
             /\ \A a \in ExistingIds \ {r.id} :
                   /\ r.pre.db[a].domain /= r.domain
                   /\ Truthy(r.studioDomain) => r.pre.db[a].studioDomain /= r.studioDomain
             /\ r.dnsLookups > 0 /\ ~r.apiDnsValid
             /\ ~r.ioFault)
            => /\ r.resp.status = 200
               /\ r.resp.body.domain = r.domain
               /\ r.resp.body.verified = FALSE
               /\ db[r.id].domain = r.domain
               /\ db[r.id].domainVerified = FALSE
               /\ Routes(file, r.domain, ApiOf(r.id))
               /\ db[r.id].studioDomain = Null
                    => /\ \A x \in file.routers : x.service = ApiOf(r.id)
                       /\ \A x \in file.services : x.name = ApiOf(r.id)

C7_Witness ==
    \E w \in Workers :
        LET r == req[w]
        IN  /\ Answered(w) /\ IsSetDomain(r) /\ r.id \in ExistingIds
            /\ r.domain \in GoodDomains /\ r.studioDomain = Undefined
            /\ r.dnsLookups > 0 /\ ~r.apiDnsValid /\ ~r.ioFault
            /\ r.resp.status = 200
            /\ db[r.id].studioDomain = Null

\* C8: a Set-domain request whose domain or Studio domain is malformed, or
\* that gives no domain, is answered 400 (never 409, also when its other
\* domain is in use elsewhere) before any lookup or write: records and
\* routing files are unchanged.
C8_MalformedRejectedFirst ==
    \A w \in Workers :
        LET r == req[w]
        IN  (/\ Serving(w) /\ IsSetDomain(r)
             /\ \/ r.domain \in BadDomains
                \/ r.studioDomain \in BadDomains
                \/ {r.domain, r.studioDomain} \subseteq {Undefined, EmptyStr})
            => /\ Answered(w)
               /\ r.resp.status = 400
               /\ NoEffect(r)

C8_Witness ==
    \E w \in Workers :
        LET r == req[w]
        IN  /\ Answered(w) /\ IsSetDomain(r) /\ r.id \in ExistingIds
            /\ r.studioDomain \in BadDomains
            /\ \E a \in ExistingIds \ {r.id} : db[a].domain = r.domain
            /\ r.resp.status = 400

\* C9: a Set-domain, Remove-domain, Get-domain, status or logs request for a
\* project id that does not exist is answered 404 and does nothing: no
\* database write, DNS lookup, file operation or orchestrator call.
C9_MissingProjectNotFound ==
    \A w \in Workers :
        LET r == req[w]
        IN  (/\ Serving(w) /\ r.auth = "valid" /\ r.id \notin ExistingIds
             /\ r.kind = "PUT" => BodyWellFormed(r))
            => /\ NoEffect(r)
               /\ Answered(w) => r.resp.status = 404

C9_Witness ==
    \E w \in Workers :
        LET r == req[w]
        IN  /\ Answered(w) /\ r.auth = "valid" /\ r.id \notin ExistingIds
            /\ r.kind = "STATUS"
            /\ r.resp.status = 404
            /\ \E id \in ExistingIds : db[id].domain /= Null

\* C10: a successful status poll returns the live container status of the
\* query made during the request (docker) beside the persisted status as
\* stored (projectStatus), each in its own field, and modifies no record.
C10_BothStatusesReturned ==
    \A w \in Workers :
        LET r == req[w]
        IN  (Answered(w) /\ r.kind = "STATUS" /\ r.resp.status = 200)
            => /\ r.orchCalls > 0
               /\ r.docker \in DockerStatuses
               /\ r.resp.body.docker.status = r.docker
               /\ r.resp.body.projectStatus = r.pre.db[r.id].status
               /\ r.resp.body.deployStatus = r.pre.db[r.id].deployStatus
               /\ r.resp.body.lastDeployAt = r.pre.db[r.id].lastDeployAt
               /\ r.resp.body.lastDeployError = r.pre.db[r.id].lastDeployError
               /\ db = r.pre.db

C10_Witness ==
    \E w \in Workers :
        LET r == req[w]
        IN  /\ Answered(w) /\ r.kind = "STATUS" /\ r.resp.status = 200
            /\ db[r.id].status = "running"
            /\ r.docker = "not_deployed"
            /\ r.resp.body.docker.status = "not_deployed"
            /\ r.resp.body.projectStatus = "running"

\* C11: once the dashboard has loaded the statuses, the status it displays
\* for a project is the live container status when the status request
\* answered with one other than "error", and the persisted project status
\* when the request failed or the live result is "error".
C11_DisplayedStatusFallsBack ==
    (dash.pc = "idle" /\ dash.loads > 0)
    => \A id \in ExistingIds :
          LET o == dash.outcome[id]
              shown == getStatusBadge(dash.projects[id], dash.projectStatuses)
          IN  IF o.ok /\ o.live /= "error" THEN shown = o.live
              ELSE shown = dash.projects[id].status

\* The latest direct library call.
Called(op) == lib.op = op

\* The port the allocator answers for a key, by the claim's rule with
\* "present" read as "present with a non-empty value".
PortFor(envVars, key, default) ==
    IF key \in DOMAIN envVars /\ envVars[key] /= EmptyStr
        THEN ParseInt(envVars[key]) ELSE default

\* C12 (as stated): the gateway port is the integer value of KONG_HTTP_PORT
\* whenever the key is present and 8000 when it is missing, and the studio
\* port is the integer value of STUDIO_PORT whenever present and 3000 when
\* missing.
C12_PortsFromPresentKeys ==
    Called("getProjectPorts")
    => LET e == lib.envVars
       IN  /\ lib.result.kongPort =
                 (IF "KONG_HTTP_PORT" \in DOMAIN e THEN ParseInt(e["KONG_HTTP_PORT"])
                  ELSE 8000)
           /\ lib.result.studioPort =
                 (IF "STUDIO_PORT" \in DOMAIN e THEN ParseInt(e["STUDIO_PORT"])
                  ELSE 3000)

\* C12 (amended): the gateway port is the integer value of KONG_HTTP_PORT
\* when the key is present with a non-empty value and 8000 otherwise, the
\* studio port the integer value of STUDIO_PORT when present with a non-empty
\* value and 3000 otherwise; each port depends on its own key only, and the
\* call changes nothing.
C12_PortsFromNonEmptyKeys ==
    Called("getProjectPorts")
    => LET e == lib.envVars
       IN  /\ lib.result.kongPort = PortFor(e, "KONG_HTTP_PORT", 8000)
           /\ lib.result.studioPort = PortFor(e, "STUDIO_PORT", 3000)
           /\ \A other \in EnvVarMaps :
                 /\ EnvGet(other, "KONG_HTTP_PORT") = EnvGet(e, "KONG_HTTP_PORT")
                       => getProjectPorts(other).kongPort = lib.result.kongPort
                 /\ EnvGet(other, "STUDIO_PORT") = EnvGet(e, "STUDIO_PORT")
                       => getProjectPorts(other).studioPort = lib.result.studioPort

\* KONG_HTTP_PORT=8080 with no STUDIO_PORT has been allocated {8080, 3000}.
C12_Witness ==
    /\ Called("getProjectPorts")
    /\ DOMAIN lib.envVars = {"KONG_HTTP_PORT"}
    /\ lib.envVars["KONG_HTTP_PORT"] = <<"8", "0", "8", "0">>
    /\ lib.result = [kongPort |-> 8080, studioPort |-> 3000]

\* The routers of a document for one host and service at the secure entry
\* point, and at the plaintext entry point.
SecureRouters(file, host, service) ==
    {x \in file.routers :
        /\ x.rule = host /\ x.service = service /\ x.entryPoint = "websecure"
        /\ x.certResolver = "letsencrypt" /\ x.priority = 10 /\ x.middleware = "none"}

PlainRouters(file, host, service) ==
    {x \in file.routers :
        /\ x.rule = host /\ x.service = service /\ x.entryPoint = "web"
        /\ x.middleware = "https-redirect" /\ x.priority = 5 /\ x.certResolver = "none"}

\* The document holds exactly one secure router, one plaintext router and one
\* service for the host.
RoutedOnce(file, host, service) ==
    /\ Cardinality(SecureRouters(file, host, service)) = 1
    /\ Cardinality(PlainRouters(file, host, service)) = 1
    /\ Cardinality({x \in file.services : x.name = service}) = 1

\* A render has just written its file.
Rendered == Called("generateProjectTraefikConfig") /\ ~lib.threw

\* C13: the document a render writes holds, for each present domain, exactly
\* one secure-entry router (websecure, letsencrypt, priority 10), exactly one
\* plaintext-entry router (web, https-redirect, priority 5) and exactly one
\* service; 2 x (present domains) routers and (present domains) services in
\* all, and nothing for an absent domain.
C13_RoutersPerPresentDomain ==
    Rendered
    => LET c == lib.config
           file == files[c.projectSlug]
           n == (IF Truthy(c.domain) THEN 1 ELSE 0)
                + (IF Truthy(c.studioDomain) THEN 1 ELSE 0)
       IN  /\ file.exists
           /\ Cardinality(file.routers) = 2 * n
           /\ Cardinality(file.services) = n
           /\ Truthy(c.domain)
                 => RoutedOnce(file, c.domain, <<c.projectSlug, "api">>)
           /\ Truthy(c.studioDomain)
                 => RoutedOnce(file, c.studioDomain, <<c.projectSlug, "studio">>)
           /\ ~Truthy(c.domain)
                 => \A x \in file.routers : x.service /= <<c.projectSlug, "api">>
           /\ ~Truthy(c.studioDomain)
                 => \A x \in file.routers : x.service /= <<c.projectSlug, "studio">>

\* A render with two different domains has written four routers and two
\* services.
C13_Witness ==
    /\ Rendered
    /\ lib.config.domain = D1 /\ lib.config.studioDomain = D2
    /\ Cardinality(files[lib.config.projectSlug].routers) = 4
    /\ Cardinality(files[lib.config.projectSlug].services) = 2

\* C14: after a render the file is the document of that render's input
\* whatever the file held before, every other file is as it was, and a render
\* of the input the file was last rendered from leaves the file as it is.
C14_RenderIdempotentOverwrite ==
    Rendered
    => LET c == lib.config
       IN  /\ files[c.projectSlug] = ProjectDocument(c)
           /\ \A s \in Slugs \ {c.projectSlug} : files[s] = lib.before[s]
           /\ lib.before[c.projectSlug] = ProjectDocument(c)
                 => files = lib.before

\* A render over a file that held another document, and a second render of
\* the same input.
C14_Witness ==
    /\ Rendered
    /\ lib.before[lib.config.projectSlug].exists
    /\ lib.before[lib.config.projectSlug] /= ProjectDocument(lib.config)
    /\ \E s \in Slugs \ {lib.config.projectSlug} :
          files[s].exists /\ files[s] = ProjectDocument([lib.config EXCEPT !.projectSlug = s])

\* C15: the verifier answers true exactly when its lookup found at least one
\* address record, false for every lookup failure, never throws, and makes
\* one lookup per call.
C15_VerifierBooleanSingleLookup ==
    Called("verifyDomainDNS")
    => /\ lib.result = (~lib.outcome.error /\ lib.outcome.addresses >= 1)
       /\ lib.outcome.error => lib.result = FALSE
       /\ ~lib.threw
       /\ lib.lookups = 1

\* A lookup that answered without any address record was verified false.
C15_Witness ==
    /\ Called("verifyDomainDNS")
    /\ ~lib.outcome.error /\ lib.outcome.addresses = 0
    /\ lib.result = FALSE

\* The rows of the settings table with a key.
RowsOf(key) == {row \in settings : row.key = key}

\* panel.yml routes the host, and no other host.
PanelRoutesOnly(host) ==
    /\ files[PanelFile].exists
    /\ HttpsRouter(files[PanelFile], host, <<"supapanel">>)
    /\ RedirectRouter(files[PanelFile], host, <<"supapanel">>)
    /\ \A x \in files[PanelFile].routers : x.rule = host
    /\ \E x \in files[PanelFile].services : x.name = <<"supapanel">>

\* C16: with panel-domain requests served one at a time, each of the keys
\* panel_domain and panel_domain_verified has at most one row; once a Set with
\* domain d is answered 200 the stored panel_domain is d, the stored
\* panel_domain_verified is the DNS result for d and panel.yml routes Host(d)
\* and no other host; once a Remove is answered both rows are absent and
\* panel.yml exists as a placeholder without routers or services.
C16_SinglePanelBinding ==
    /\ Cardinality(RowsOf("panel_domain")) <= 1
    /\ Cardinality(RowsOf("panel_domain_verified")) <= 1
    /\ \A w \in Workers :
          LET r == req[w]
          IN  /\ (Answered(w) /\ r.kind = "PANEL_PUT" /\ r.resp.status = 200)
                    => /\ SettingValue(settings, "panel_domain") = r.domain
                       /\ SettingValue(settings, "panel_domain_verified")
                             = BoolString(r.apiDnsValid)
                       /\ PanelRoutesOnly(r.domain)
              /\ (Answered(w) /\ r.kind = "PANEL_DELETE" /\ r.resp.status = 200)
                    => /\ RowsOf("panel_domain") = {}
                       /\ RowsOf("panel_domain_verified") = {}
                       /\ files[PanelFile] = PanelPlaceholder

\* C17: no project's API or Studio domain equals the configured panel
\* domain, whichever of the two was set last.
C17_PanelDomainDistinctFromProjects ==
    (\A w \in Workers : ~Serving(w))
    => \A id \in ExistingIds :
          LET panelDomain == SettingValue(settings, "panel_domain")
          IN  Truthy(panelDomain)
              => /\ db[id].domain /= panelDomain
                 /\ db[id].studioDomain /= panelDomain

\* C18: under any interleaving of registration requests at most one user is
\* ever created; a register request that arrives once a user exists is
\* answered 403 and creates no user; and the registration-status endpoint
\* answers registrationOpen = true exactly when no user exists.
C18_FirstUserOnly ==
    /\ Cardinality(users) <= 1
    /\ \A w \in Workers :
          LET r == req[w]
          IN  /\ (Serving(w) /\ r.kind = "REGISTER" /\ r.pre.users /= {}
                      /\ Truthy(r.email) /\ Truthy(r.password))
                    => /\ r.created = 0
                       /\ Answered(w) => r.resp.status = 403
              /\ (Answered(w) /\ r.kind = "REGISTRATION_STATUS")
                    => r.resp.body.registrationOpen = (r.pre.users = {})

\* `studio.${domain}`
StudioSubdomain(domain) == <<"s", "t", "u", "d", "i", "o", ".">> \o domain

\* C19: once a Set-domain request that gives only the API domain D is
\* answered 200, the project's routing file routes Host(D) to the API service
\* and holds a router with rule Host(studio.D) bound to the studio service.
C19_StudioSubdomainRouted ==
    \A w \in Workers :
        LET r == req[w]
        IN  (/\ Answered(w) /\ IsSetDomain(r) /\ r.resp.status = 200
             /\ r.domain \in GoodDomains /\ r.studioDomain = Undefined)
            => /\ Routes(files[Slug(r.id)], r.domain, ApiOf(r.id))
               /\ HttpsRouter(files[Slug(r.id)], StudioSubdomain(r.domain), StudioOf(r.id))

\* C20: the status is deploying from before the bring-up is invoked until
\* the outcome is recorded; once the deploy operation has returned the status
\* is running with lastDeployError cleared when the bring-up succeeded and
\* failed with a non-empty lastDeployError when it failed, lastDeployAt is
\* stamped with the time of the operation in both cases, and no project is
\* left in deploying.
C20_DeployEndsRunningOrFailed ==
    /\ \A w \in Workers :
          LET r == req[w]
          IN  (Serving(w) /\ r.kind = "DEPLOY" /\ r.id \in ExistingIds)
              => /\ r.pc = "setDeploying" => r.orchCalls = 0
                 /\ r.pc \in {"up", "record"} => db[r.id].status = "deploying"
                 /\ r.orchCalls > 0 => r.pc \in {"record", "done"}
                 /\ Answered(w)
                       => /\ r.orchCalls = 1
                          /\ db[r.id].status \in {"running", "failed"}
                          /\ r.up.success
                                => /\ db[r.id].status = "running"
                                   /\ db[r.id].lastDeployError = Null
                          /\ ~r.up.success
                                => /\ db[r.id].status = "failed"
                                   /\ Truthy(db[r.id].lastDeployError)
                          /\ db[r.id].lastDeployAt = Stamp(now)
                          /\ db[r.id].lastDeployAt /= r.pre.db[r.id].lastDeployAt
    /\ (\A w \in Workers : ~Serving(w) \/ Answered(w))
          => \A id \in ExistingIds : db[id].status /= "deploying"

\* A failed project was deployed again: it went through deploying, the
\* bring-up failed again, and the operation has returned.
C20_Witness ==
    \E w \in Workers :
        LET r == req[w]
        IN  /\ Answered(w) /\ r.kind = "DEPLOY" /\ r.id \in ExistingIds
            /\ r.pre.db[r.id].status \in {"failed", "stopped"}
            /\ ~r.up.success
            /\ db[r.id].status = "failed"
            /\ served = 2

C22_IoFailureSurfaced ==
    \A w \in Workers :
        LET r == req[w]
        IN  (/\ Answered(w)
             /\ r.kind \in {"PUT", "DELETE", "PANEL_PUT", "PANEL_DELETE"}
             /\ r.ioFault)
            => /\ r.resp.status >= 400
               /\ "error" \in DOMAIN r.resp.body

\* A Set-domain or Remove-domain request run alone, start to end, on the
\* database and routing directory of state, with the lookup results and the
\* I/O fault the request met: the database and the directory afterwards.
SerialRun(state, r) ==
    LET rows == state.db
        fs == state.files
    IN  IF r.id \notin DOMAIN rows THEN state
        ELSE IF r.kind = "DELETE"
            THEN [db |-> [rows EXCEPT ![r.id] = UpdateRow(@, ClearedDomains)],
                  files |-> IF r.ioFault THEN fs
                            ELSE removeProjectTraefikConfig(fs, rows[r.id].slug)]
        ELSE IF \/ PutValidate(r.domain, r.studioDomain) /= "ok"
                \/ Truthy(r.domain) /\ ApiDomainInUse(rows, r.id, r.domain)
                \/ Truthy(r.studioDomain)
                      /\ StudioDomainInUse(rows, r.id, r.studioDomain)
            THEN state
        ELSE LET row == UpdateRow(rows[r.id],
                                  UpdateData(r.domain, r.studioDomain,
                                             r.apiDnsValid, r.studioDnsValid))
                 config == TraefikConfigOf([slug |-> rows[r.id].slug,
                                            envVars |-> rows[r.id].envVars],
                                           r.domain, r.studioDomain, row)
             IN  [db |-> [rows EXCEPT ![r.id] = row],
                  files |-> IF (Truthy(config.domain) \/ Truthy(config.studioDomain))
                                /\ ~r.ioFault
                            THEN generateProjectTraefikConfig(fs, config) ELSE fs]

\* The database and the directory before either of two requests on different
\* projects began: each project as its own request found it.
BeforeBoth(a, b) ==
    [db |-> [i \in DOMAIN a.pre.db |-> IF i = b.id THEN b.pre.db[i] ELSE a.pre.db[i]],
     files |-> [s \in FileNames |-> IF s = b.project.slug THEN b.pre.files[s]
                                    ELSE a.pre.files[s]]]

\* Two answered Set-domain or Remove-domain requests on different existing
\* projects.
OnDifferentProjects(a, b) ==
    /\ a.pc = "done" /\ b.pc = "done"
    /\ a.kind \in {"PUT", "DELETE"} /\ b.kind \in {"PUT", "DELETE"}
    /\ a.resp.status = 200 /\ b.resp.status = 200
    /\ a.id /= b.id

\* A step changes only the routing file of the slug whose render or removal
\* it completes.
FileWritesPerSlug ==
    [][\A s \in FileNames :
          files'[s] /= files[s]
          => \E w \in Workers :
                /\ req[w].pc \in {"render", "remove"}
                /\ req[w].kind \in {"PUT", "DELETE"}
                /\ req[w].project.slug = s
                /\ req'[w].pc = "done"]_vars

\* C23: a render or removal for the project with slug s changes only the
\* file of s, and once two concurrent requests on different projects are
\* answered every routing file is what it would be had the two requests run
\* one after the other, in one order or the other.
C23_FilesIsolatedPerSlug ==
    /\ FileWritesPerSlug
    /\ [](OnDifferentProjects(req[1], req[2])
            => \/ files = SerialRun(SerialRun(BeforeBoth(req[1], req[2]), req[1]),
                                    req[2]).files
               \/ files = SerialRun(SerialRun(BeforeBoth(req[1], req[2]), req[2]),
                                    req[1]).files)

\* The row after a Set-domain request's update is applied to a row: each
\* domain key the body gives replaces the column and its verified flag, every
\* other column stays.
AfterSet(row, r) ==
    [row EXCEPT
        !.domain = IF r.domain = Undefined THEN @
                   ELSE IF Truthy(r.domain) THEN r.domain ELSE Null,
        !.domainVerified = IF r.domain = Undefined THEN @
                           ELSE Truthy(r.domain) /\ r.apiDnsValid,
        !.studioDomain = IF r.studioDomain = Undefined THEN @
                         ELSE IF Truthy(r.studioDomain) THEN r.studioDomain ELSE Null,
        !.studioDomainVerified = IF r.studioDomain = Undefined THEN @
                                 ELSE Truthy(r.studioDomain) /\ r.studioDnsValid]

\* The document a Set-domain request renders.
DocumentOf(r) ==
    ProjectDocument(TraefikConfigOf(r.project, r.domain, r.studioDomain, r.updatedProject))

\* Two answered, successful Set-domain requests on the same project, x's
\* update followed by y's with no other write of the row between them.
SetThenSet(x, y) ==
    /\ x.pc = "done" /\ y.pc = "done"
    /\ x.kind = "PUT" /\ y.kind = "PUT"
    /\ x.resp.status = 200 /\ y.resp.status = 200
    /\ x.id = y.id
    /\ y.replaced = x.updatedProject

\* C24: once two concurrent Set-domain requests on one project have both
\* succeeded, the row is the row they found with the two updates applied one
\* after the other, and the routing file is the document one of the two
\* rendered.
C24_SameProjectSetsSerialize ==
    \A v \in Workers, w \in Workers :
        LET x == req[v]
            y == req[w]
        IN  (v /= w /\ SetThenSet(x, y))
            => /\ db[x.id] = AfterSet(AfterSet(x.replaced, x), y)
               /\ files[x.project.slug] \in {DocumentOf(x), DocumentOf(y)}

\* Two requests on one project raced: each passed its checks before the other
\* wrote, one set the API domain and the other the Studio domain, and the
\* file is the document of the request that updated first.
C24_Witness ==
    \E v \in Workers, w \in Workers :
        LET x == req[v]
            y == req[w]
        IN  /\ v /= w /\ SetThenSet(x, y)
            /\ x.pre.db = y.pre.db
            /\ x.domain \in GoodDomains /\ x.studioDomain = Undefined
            /\ y.domain = Undefined /\ y.studioDomain \in GoodDomains
            /\ db[x.id].domain = x.domain /\ db[x.id].studioDomain = y.studioDomain
            /\ files[x.project.slug] = DocumentOf(x)
            /\ DocumentOf(x) /= DocumentOf(y)

\* C25: in every state, whatever Set-domain and Remove-domain requests have
\* been served, a project's verified flag is true only for a domain that is
\* set, and only if the lookup made by the request that last wrote that
\* domain found at least one address.
C25_VerifiedOnlyIfSetAndResolved ==
    \A id \in DOMAIN db :
        /\ db[id].domainVerified
            => db[id].domain /= Null /\ resolved[id].domain
        /\ db[id].studioDomainVerified
            => db[id].studioDomain /= Null /\ resolved[id].studioDomain

\* A Set-domain request saved both domains; the API domain's lookup found an
\* address and it is verified, the Studio domain's found none and it is not.
C25_Witness ==
    \E w \in Workers :
        LET r == req[w]
        IN  /\ Answered(w) /\ IsSetDomain(r) /\ r.resp.status = 200
            /\ r.apiResolved /\ ~r.studioResolved
            /\ db[r.id].domain = r.domain /\ db[r.id].domainVerified
            /\ db[r.id].studioDomain = r.studioDomain
            /\ r.studioDomain \in GoodDomains
            /\ ~db[r.id].studioDomainVerified

\* C26: whatever slug creation gave a project, panel.yml is changed only by a
\* panel Set or Remove completing its file step, and the routing file of a
\* project only by a render or removal of a project-domain request.
C26_PanelFileApart ==
    [][/\ files'[PanelFile] /= files[PanelFile]
            => \E w \in Workers :
                  /\ req[w].pc \in {"render", "remove"}
                  /\ req[w].kind \in {"PANEL_PUT", "PANEL_DELETE"}
                  /\ req'[w].pc = "done"
       /\ \A id \in DOMAIN db :
            files'[db[id].slug] /= files[db[id].slug]
            => \E w \in Workers :
                  /\ req[w].pc \in {"render", "remove"}
                  /\ req[w].kind \in {"PUT", "DELETE"}
                  /\ req'[w].pc = "done"]_vars

\* The kinds of request of the project-domain, status, logs and panel-domain
\* endpoints.
ApiKinds ==
    {"GET", "PUT", "DELETE", "STATUS", "LOGS", "PANEL_GET", "PANEL_PUT", "PANEL_DELETE"}

\* C27: a request to a project-domain, panel-domain, status or logs endpoint
\* without a session cookie, or with a session that fails validation, is
\* answered 401 by its first step, which changes nothing; no later step of
\* the handler (record read or write, lookup, Orchestrator call, file write or
\* removal) runs for it.
C27_UnauthenticatedNoEffect ==
    /\ [](\A w \in Workers :
            LET r == req[w]
            IN  (Serving(w) /\ r.kind \in ApiKinds /\ r.auth /= "valid")
                => /\ Answered(w)
                   /\ r.resp.status = 401
                   /\ r.resp.body \in {[error |-> "Unauthorized"],
                                       [error |-> "Invalid session"]}
                   /\ NoEffect(r)
                   /\ settings = r.pre.settings
                   /\ r.project = [slug |-> "", envVars |-> <<>>])
    /\ [][\A w \in Workers :
            (req'[w] /= req[w] /\ req'[w].pc /= "idle" /\ req'[w].auth /= "valid")
            => /\ req[w].pc = "idle"
               /\ db' = db /\ files' = files /\ settings' = settings
               /\ server' = server]_vars

\* With a project routed, a Set-domain request naming that project and another
\* well-formed domain, sent without a valid session, has been answered 401.
C27_Witness ==
    \E w \in Workers :
        LET r == req[w]
        IN  /\ Answered(w) /\ r.auth /= "valid" /\ r.resp.status = 401
            /\ r.kind = "PUT" /\ r.id \in DOMAIN db /\ r.domain \in GoodDomains
            /\ db[r.id].domain \in GoodDomains /\ db[r.id].domain /= r.domain
            /\ files[db[r.id].slug].exists

\* The file holds no router and no service of the service name.
Unrouted(file, service) ==
    /\ \A x \in file.routers : x.service /= service
    /\ \A x \in file.services : x.name /= service

\* C28: requests one at a time; a Set-domain request answered 200 whose body
\* gives '' for one domain key and a well-formed value for the other leaves
\* null and verified = false in the row for the empty key, and the file it
\* wrote routes the other domain and holds no router and no service for the
\* removed one; a key the body omits keeps its column and verified flag.
C28_EmptyRemovesOmittedKeeps ==
    \A w \in Workers :
        LET r == req[w]
        IN  (Answered(w) /\ IsSetDomain(r) /\ r.resp.status = 200)
            => LET row == db[r.id]
                   old == r.pre.db[r.id]
                   file == files[row.slug]
               IN  /\ (r.domain = EmptyStr)
                        => /\ row.domain = Null /\ ~row.domainVerified
                           /\ Unrouted(file, ApiOf(r.id))
                           /\ Routes(file, row.studioDomain, StudioOf(r.id))
                           /\ row.studioDomain = r.studioDomain
                   /\ (r.studioDomain = EmptyStr)
                        => /\ row.studioDomain = Null /\ ~row.studioDomainVerified
                           /\ Unrouted(file, StudioOf(r.id))
                           /\ Routes(file, row.domain, ApiOf(r.id))
                           /\ row.domain = r.domain
                   /\ (r.domain = Undefined)
                        => /\ row.domain = old.domain
                           /\ row.domainVerified = old.domainVerified
                   /\ (r.studioDomain = Undefined)
                        => /\ row.studioDomain = old.studioDomain
                           /\ row.studioDomainVerified = old.studioDomainVerified

\* A project held a verified API domain, routed by its file; a request with
\* domain '' and a Studio domain removed it from the row and from the file.
C28_Witness ==
    \E w \in Workers :
        LET r == req[w]
        IN  /\ Answered(w) /\ IsSetDomain(r) /\ r.resp.status = 200
            /\ r.domain = EmptyStr /\ r.studioDomain \in GoodDomains
            /\ r.pre.db[r.id].domain \in GoodDomains
            /\ r.pre.db[r.id].domainVerified
            /\ Routes(r.pre.files[Slug(r.id)], r.pre.db[r.id].domain, ApiOf(r.id))
            /\ db[r.id].domain = Null
            /\ Unrouted(files[Slug(r.id)], ApiOf(r.id))

\* Every request received so far is still at its worker, in progress or
\* answered.
AllAtWorkers == Cardinality({w \in Workers : req[w].pc /= "idle"}) = served

\* Every request received so far has been answered, none after an I/O fault.
AllCompleted ==
    /\ AllAtWorkers
    /\ \A w \in Workers : req[w].pc \in {"idle", "done"}
    /\ \A w \in Workers : req[w].pc = "done" => ~req[w].ioFault

\* The panel Set requests for the domain.
PanelSetsOf(domain) ==
    {w \in Workers : /\ req[w].pc /= "idle"
                     /\ req[w].kind = "PANEL_PUT"
                     /\ req[w].domain = domain}

\* C29: whatever the interleaving of panel Set and Remove requests, once all
\* are completed panel_domain_verified is the DNS result of a Set request for
\* the stored panel_domain and panel.yml routes that domain only, or has no
\* router and no service when no panel_domain row exists; and a Get answers a
\* domain as verified only if the lookup of a Set request for that domain
\* succeeded.
C29_PanelStateAgrees ==
    /\ AllCompleted
        => IF RowsOf("panel_domain") = {}
           THEN files[PanelFile].routers = {} /\ files[PanelFile].services = {}
           ELSE LET d == SettingValue(settings, "panel_domain")
                IN  /\ PanelRoutesOnly(d)
                    /\ \E w \in PanelSetsOf(d) :
                          SettingValue(settings, "panel_domain_verified")
                             = BoolString(req[w].apiDnsValid)
    /\ AllAtWorkers
        => \A g \in Workers :
              (/\ Answered(g) /\ req[g].kind = "PANEL_GET"
               /\ req[g].resp.status = 200
               /\ req[g].resp.body.domain /= Null
               /\ req[g].resp.body.verified)
              => \E w \in PanelSetsOf(req[g].resp.body.domain) : req[w].apiDnsValid

\* C30: in every state, whatever Set-domain requests have been served, no
\* project has the same value as API domain and as Studio domain, and no
\* routing file holds a router to the API service and a router to the Studio
\* service with the same Host rule.
C30_ApiAndStudioDomainsDiffer ==
    /\ \A id \in DOMAIN db :
          db[id].domain /= Null => db[id].domain /= db[id].studioDomain
    /\ \A id \in DOMAIN db :
          \A x \in files[db[id].slug].routers, y \in files[db[id].slug].routers :
             (x.service = ApiOf(id) /\ y.service = StudioOf(id)) => x.rule /= y.rule

====
